---- MODULE Spec2Model ----
(***************************************************************************)
(* The JSON-RPC application server of lwk (app/src/lib.rs): the method     *)
(* dispatcher inner_method_handler, run by the worker threads of the       *)
(* transport over one Arc<Mutex<State>> holding the wallet registry and    *)
(* the signer registry.                                                    *)
(*                                                                         *)
(* A worker goes idle -> called (the transport has handed it a request)    *)
(* -> wantlock (method parsed, parameters deserialized) -> locked (it      *)
(* holds the mutex guard) -> unlocking (the handler body has run, the      *)
(* guard is about to be dropped) -> done (the handler returned or          *)
(* panicked) -> idle (the transport has sent the response).  Methods that  *)
(* never lock go called -> done.  The arms that call sync_txs pass through *)
(* synced between locked and unlocking.  The variable app is the App       *)
(* object that owns the server: run, stop, is_running, join_threads.       *)
(***************************************************************************)
EXTENDS Integers, Sequences, FiniteSets, TLC

\* ------------------------------------------------------------------ bounds
NumWorkers == 2
MaxId == 2
MaxRuns == 2

Workers == 1..NumWorkers
Ids == 1..MaxId

WalletNames == {"w1", "w2"}
SignerNames == {"s1", "s2"}

\* ------------------------------------------------------- wallet engine stub
\* Descriptor texts a caller may send.  "elwpkh(A)" is "elwpkh(A)#c1" written
\* without its checksum; "garbage" is rejected by the wallet engine.
DescriptorTexts == {"elwpkh(A)#c1", "elwpkh(A)", "elwsh(multi(2,A,B))#c2", "garbage"}

\* Wollet::new parses the text: a descriptor is accepted with or without its
\* checksum.  A parsed descriptor is represented by the text it prints as.
ParseDescriptor(text) ==
    CASE text = "elwpkh(A)#c1" -> [ok |-> TRUE, descriptor |-> "elwpkh(A)#c1"]
      [] text = "elwpkh(A)" -> [ok |-> TRUE, descriptor |-> "elwpkh(A)#c1"]
      [] text = "elwsh(multi(2,A,B))#c2" -> [ok |-> TRUE, descriptor |-> "elwsh(multi(2,A,B))#c2"]
      [] text \in {"elsh(wpkh(C))#c3", "elwsh(multi(2,A/0,A/1,B))#c4",
                   "elwsh(and_v(v:pk(A),older(1)))#c5", "elwsh(sortedmulti(2,A,B))#c6",
                   "elsh(multi(1,A,C))#c7"} ->
           [ok |-> TRUE, descriptor |-> text]
      [] OTHER -> [ok |-> FALSE, descriptor |-> ""]

\* wollet.descriptor().to_string(): the descriptor printed with its checksum.
DescriptorToString(wollet) == wollet.descriptor

\* Wollet::new(network, electrum_url, tls, validate_domain, datadir, descriptor):
\* fails on a descriptor it cannot parse, or when the engine itself fails (up).
\* A new wallet has not synchronized with the chain yet.
WolletNew(text, up) ==
    LET p == ParseDescriptor(text)
    IN  IF p.ok /\ up = "ok"
        THEN [ok |-> TRUE, wollet |-> [descriptor |-> p.descriptor, synced |-> FALSE]]
        ELSE [ok |-> FALSE, wollet |-> [descriptor |-> "", synced |-> FALSE]]

\* The outcomes of one call into an external engine.
Upstream == {"ok", "fail"}

\* ---------------------------------------------------------- named registry
\* state::Wollets / state::Signers: a collection of (name, entity) entries.
RegHas(reg, name) == \E e \in reg : e.name = name

RegGet(reg, name) == (CHOOSE e \in reg : e.name = name).entity

RegInsert(reg, name, entity) ==
    IF RegHas(reg, name)
    THEN [ok |-> FALSE, reg |-> reg]
    ELSE [ok |-> TRUE, reg |-> reg \cup {[name |-> name, entity |-> entity]}]

RegRemove(reg, name) ==
    IF RegHas(reg, name)
    THEN [ok |-> TRUE, reg |-> {e \in reg : e.name # name}]
    ELSE [ok |-> FALSE, reg |-> reg]

RegNames(reg) == {e.name : e \in reg}

\* ------------------------------------------------------------- responses
NoReq == [method |-> "", id |-> 0, params |-> [shape |-> "absent"]]
NoResp == [kind |-> "none", id |-> 0, code |-> "", data |-> "", calls |-> <<>>]

\* Response::result(request.id, value); calls lists the calls the handler made
\* into the registries and the engines, in order.
Result(id, data, calls) ==
    [kind |-> "result", id |-> id, code |-> "", data |-> data, calls |-> calls]

\* Err(e) out of inner_method_handler: the dispatcher answers with an error.
Failure(id, code, calls) ==
    [kind |-> "error", id |-> id, code |-> code, data |-> "", calls |-> calls]

\* A panic of the handler: no response is built.
Panic(id, calls) ==
    [kind |-> "panic", id |-> id, code |-> "", data |-> "", calls |-> calls]

\* ------------------------------------------------------------ method set
\* method::Method, the closed set of methods, by their wire names.
Methods ==
    {"schema", "generate_signer", "version", "load_wallet", "unload_wallet",
     "list_wallets", "load_signer", "unload_signer", "list_signers", "address",
     "balance", "send_many", "singlesig_descriptor", "multisig_descriptor",
     "xpub", "sign", "broadcast", "wallet_details", "wallet_combine",
     "wallet_pset_details", "issue", "contract", "asset_details", "stop"}

\* A method name outside the set, as a caller may send it.
UnknownMethods == {"frobnicate"}

\* request.method.as_str().parse(): Method::from_str.
ParseMethod(name) ==
    IF name \in Methods
    THEN [ok |-> TRUE, method |-> name, error |-> ""]
    ELSE [ok |-> FALSE, method |-> "", error |-> name]

\* Mutant of LockMethods: GenerateSigner takes the lock as well.
LockMethodsWithGenerate ==
    {"load_wallet", "unload_wallet", "list_wallets", "load_signer",
     "unload_signer", "list_signers", "address", "balance", "send_many",
     "singlesig_descriptor", "xpub", "sign", "broadcast", "wallet_details",
     "wallet_combine", "wallet_pset_details", "issue", "asset_details",
     "generate_signer"}

\* The methods whose arm takes state.lock().
LockMethods ==
    {"load_wallet", "unload_wallet", "list_wallets", "load_signer",
     "unload_signer", "list_signers", "address", "balance", "send_many",
     "singlesig_descriptor", "xpub", "sign", "broadcast", "wallet_details",
     "wallet_combine", "wallet_pset_details", "issue", "asset_details"}

\* How each arm reads request.params: not at all, through unwrap_or_default(),
\* or through unwrap().
ParamsPolicy(method) ==
    CASE method \in {"generate_signer", "version", "list_wallets", "list_signers", "stop"}
           -> "ignored"
      [] method \in {"schema", "load_wallet", "unload_wallet", "load_signer",
                     "unload_signer", "address", "balance"}
           -> "unwrap_or_default"
      [] OTHER -> "unwrap"

\* serde_json::from_value(request.params...) of an arm: "ok" when the typed
\* request is built, "error" when serde rejects the value (a Null from
\* unwrap_or_default() included), "panic" when unwrap() meets None.
DeserializeParams(method, params) ==
    LET policy == ParamsPolicy(method)
    IN  CASE policy = "ignored" -> "ok"
          [] params.shape = "absent" /\ policy = "unwrap" -> "panic"
          [] params.shape = "absent" -> "error"
          [] params.shape = "malformed" -> "error"
          [] OTHER -> "ok"

\* ------------------------------------------------------------------- state
VARIABLES
    pc,         \* each worker's position in method_handler
    req,        \* the request a worker is handling
    resp,       \* what its handler returned
    holders,    \* the workers holding the guard of the state mutex
    poisoned,   \* the mutex is poisoned: a handler panicked holding the guard
    wollets,    \* State::wollets
    signers,    \* State::signers
    running,    \* the server accepts requests: no Stop has been answered yet
    walletOps,  \* history: the last successful load/unload of each wallet name,
                \* with the descriptor text of the last successful load
    signerOps,  \* history: the same for each signer name, with the kind loaded
    app         \* the App: whether App::rpc is Some, where its owner is, how many
                \* session states were installed, the last call and its result

vars ==
    <<pc, req, resp, holders, poisoned, wollets, signers, running, walletOps, signerOps, app>>

\* The App once App::run has returned Ok.
Started == [rpc |-> TRUE, at |-> "ready", runs |-> 1, call |-> "run", result |-> "Ok"]

\* App::run: a fresh State, both registries empty, the mutex free.
Init ==
    /\ pc = [w \in Workers |-> "idle"]
    /\ req = [w \in Workers |-> NoReq]
    /\ resp = [w \in Workers |-> NoResp]
    /\ holders = {}
    /\ poisoned = FALSE
    /\ app = Started
    /\ wollets = {}
    /\ signers = {}
    /\ running = TRUE
    /\ walletOps = [n \in WalletNames |-> [op |-> "none", arg |-> ""]]
    /\ signerOps = [n \in SignerNames |-> [op |-> "none", arg |-> ""]]

\* --------------------------------------------------------------- dispatcher
\* The transport hands a request to method_handler on a worker thread.
Receive(w, requests) ==
    /\ running
    /\ pc[w] = "idle"
    /\ \E r \in requests :
         req' = [req EXCEPT ![w] = r]
    /\ pc' = [pc EXCEPT ![w] = "called"]
    /\ UNCHANGED <<app, running, resp, holders, poisoned, wollets, signers, walletOps, signerOps>>

\* Mutant of UnimplementedResponse: the response does not echo the request id.
UnimplementedResponseNoId(r) ==
    [kind |-> "unimplemented", id |-> 0, code |-> "",
     data |-> ParseMethod(r.method).error, calls |-> <<>>]

\* Response::unimplemented(request.id, e.to_string()).
UnimplementedResponse(r) ==
    [kind |-> "unimplemented", id |-> r.id, code |-> "",
     data |-> ParseMethod(r.method).error, calls |-> <<>>]

\* The method name does not parse: the handler returns Ok(unimplemented).
Unimplemented(w) ==
    /\ pc[w] = "called"
    /\ ~ParseMethod(req[w].method).ok
    /\ resp' = [resp EXCEPT ![w] = UnimplementedResponse(req[w])]
    /\ pc' = [pc EXCEPT ![w] = "done"]
    /\ UNCHANGED <<app, running, req, holders, poisoned, wollets, signers, walletOps, signerOps>>

\* What a locking arm does before state.lock(): the typed request is built,
\* or the arm ends with serde's error, or unwrap() panics.
DeserializeOutcome(r) ==
    LET d == DeserializeParams(r.method, r.params)
    IN  CASE d = "ok" -> [pc |-> "wantlock", resp |-> NoResp]
          [] d = "error" -> [pc |-> "done", resp |-> Failure(r.id, "InvalidParams", <<>>)]
          [] OTHER -> [pc |-> "done", resp |-> Panic(r.id, <<>>)]

Deserialize(w) ==
    /\ pc[w] = "called"
    /\ ParseMethod(req[w].method).ok
    /\ req[w].method \in LockMethods
    /\ LET o == DeserializeOutcome(req[w])
       IN  /\ pc' = [pc EXCEPT ![w] = o.pc]
           /\ resp' = [resp EXCEPT ![w] = o.resp]
    /\ UNCHANGED <<app, running, req, holders, poisoned, wollets, signers, walletOps, signerOps>>

\* Mutant of CanAcquire: a shutdown cancels the handlers waiting for the lock.
CanAcquireWhileRunning(w) == holders = {} /\ running

\* Mutant of CanAcquire: lock() never blocks.
CanAcquireAlways(w) == TRUE

\* state.lock() on a free, healthy mutex; a held mutex blocks the caller.
CanAcquire(w) == holders = {}

\* Mutant of LockFails: a mutex that does not report poisoning.
LockFailsNever == FALSE

\* state.lock() returns Err(PoisonError) once a holder has panicked.
LockFails == poisoned

Acquire(w) ==
    /\ pc[w] = "wantlock"
    /\ CanAcquire(w)
    /\ ~LockFails
    /\ holders' = holders \cup {w}
    /\ pc' = [pc EXCEPT ![w] = "locked"]
    /\ UNCHANGED <<app, running, req, resp, poisoned, wollets, signers, walletOps, signerOps>>

\* state.lock().unwrap() on a poisoned mutex: lock() returns Err and unwrap()
\* panics, dropping the guard it was given.
AcquirePoisoned(w) ==
    /\ pc[w] = "wantlock"
    /\ CanAcquire(w)
    /\ LockFails
    /\ resp' = [resp EXCEPT ![w] = Panic(req[w].id, <<>>)]
    /\ pc' = [pc EXCEPT ![w] = "done"]
    /\ UNCHANGED <<app, running, req, holders, poisoned, wollets, signers, walletOps, signerOps>>

\* The guard goes out of scope: at the end of the arm, on an early return, on
\* `?`, or while a panic unwinds, which poisons the mutex.
Release(w) ==
    /\ pc[w] = "unlocking"
    /\ holders' = holders \ {w}
    /\ poisoned' = (poisoned \/ resp[w].kind = "panic")
    /\ pc' = [pc EXCEPT ![w] = "done"]
    /\ UNCHANGED <<app, running, req, resp, wollets, signers, walletOps, signerOps>>

\* The transport sends the response and the worker is free for the next
\* request; the Stop sentinel, once answered, stops the server.
Reply(w) ==
    /\ pc[w] = "done"
    /\ pc' = [pc EXCEPT ![w] = "idle"]
    /\ req' = [req EXCEPT ![w] = NoReq]
    /\ resp' = [resp EXCEPT ![w] = NoResp]
    /\ running' = (running /\ resp[w].kind # "stop")
    /\ UNCHANGED <<app, holders, poisoned, wollets, signers, walletOps, signerOps>>

\* ----------------------------------------------------------- wallet methods
\* Mutant of LoadWalletHandler: a load under a name in use replaces the entry.
LoadWalletHandlerReplacing(reg, r, up) ==
    LET new == WolletNew(r.params.descriptor, up)
    IN  IF ~new.ok
        THEN [wollets |-> reg, resp |-> Failure(r.id, "Wollet", <<"Wollet::new">>)]
        ELSE [wollets |-> {e \in reg : e.name # r.params.name}
                            \cup {[name |-> r.params.name, entity |-> new.wollet]},
              resp |-> Result(r.id,
                              [name |-> r.params.name, descriptor |-> r.params.descriptor],
                              <<"Wollet::new", "insert">>)]

\* Method::LoadWallet, under the lock.
LoadWalletHandler(reg, r, up) ==
    LET new == WolletNew(r.params.descriptor, up)
        ins == RegInsert(reg, r.params.name, new.wollet)
    IN  CASE ~new.ok ->
               [wollets |-> reg, resp |-> Failure(r.id, "Wollet", <<"Wollet::new">>)]
          [] ~ins.ok ->
               [wollets |-> reg,
                resp |-> Failure(r.id, "NameAlreadyExists", <<"Wollet::new", "insert">>)]
          [] OTHER ->
               [wollets |-> ins.reg,
                resp |-> Result(r.id,
                                [name |-> r.params.name, descriptor |-> r.params.descriptor],
                                <<"Wollet::new", "insert">>)]

\* Mutant of UnloadWalletHandler: a name that is not loaded unloads every
\* wallet and is answered with an empty descriptor.
UnloadWalletHandlerLenient(reg, r) ==
    IF RegHas(reg, r.params.name)
    THEN [wollets |-> RegRemove(reg, r.params.name).reg,
          resp |-> Result(r.id,
                          [name |-> r.params.name,
                           descriptor |-> DescriptorToString(RegGet(reg, r.params.name))],
                          <<"remove">>)]
    ELSE [wollets |-> {},
          resp |-> Result(r.id, [name |-> r.params.name, descriptor |-> ""], <<"remove">>)]

\* Mutant of UnloadWalletHandler: the wallet is reported but not removed.
UnloadWalletHandlerKeeping(reg, r) ==
    IF RegHas(reg, r.params.name)
    THEN [wollets |-> reg,
          resp |-> Result(r.id,
                          [name |-> r.params.name,
                           descriptor |-> DescriptorToString(RegGet(reg, r.params.name))],
                          <<"remove">>)]
    ELSE [wollets |-> reg, resp |-> Failure(r.id, "NameNotFound", <<"remove">>)]

\* Method::UnloadWallet, under the lock.
UnloadWalletHandler(reg, r) ==
    LET rem == RegRemove(reg, r.params.name)
    IN  IF ~rem.ok
        THEN [wollets |-> reg, resp |-> Failure(r.id, "NameNotFound", <<"remove">>)]
        ELSE [wollets |-> rem.reg,
              resp |-> Result(r.id,
                              [name |-> r.params.name,
                               descriptor |-> DescriptorToString(RegGet(reg, r.params.name))],
                              <<"remove">>)]

\* The wallets a ListWallets response carries.
ListedWallets(reg) ==
    {[name |-> e.name, descriptor |-> DescriptorToString(e.entity)] : e \in reg}

\* Method::ListWallets, under the lock.
ListWalletsHandler(reg, r) ==
    [wollets |-> reg, resp |-> Result(r.id, ListedWallets(reg), <<"iter">>)]

\* The history of a registry after a handler answered response to a load of
\* arg, or to an unload, of name.
OpsAfter(ops, name, what, arg, response) ==
    CASE response.kind # "result" -> ops
      [] what = "load" -> [ops EXCEPT ![name] = [op |-> "load", arg |-> arg]]
      [] OTHER -> [ops EXCEPT ![name] = [op |-> "unload", arg |-> @.arg]]

LoadWallet(w) ==
    /\ pc[w] = "locked"
    /\ req[w].method = "load_wallet"
    /\ \E up \in Upstream :
         LET o == LoadWalletHandler(wollets, req[w], up)
         IN  /\ wollets' = o.wollets
             /\ resp' = [resp EXCEPT ![w] = o.resp]
             /\ walletOps' = OpsAfter(walletOps, req[w].params.name, "load", req[w].params.descriptor, o.resp)
    /\ pc' = [pc EXCEPT ![w] = "unlocking"]
    /\ UNCHANGED <<app, running, req, holders, poisoned, signers, signerOps>>

UnloadWallet(w) ==
    /\ pc[w] = "locked"
    /\ req[w].method = "unload_wallet"
    /\ LET o == UnloadWalletHandler(wollets, req[w])
       IN  /\ wollets' = o.wollets
           /\ resp' = [resp EXCEPT ![w] = o.resp]
           /\ walletOps' = OpsAfter(walletOps, req[w].params.name, "unload", "", o.resp)
    /\ pc' = [pc EXCEPT ![w] = "unlocking"]
    /\ UNCHANGED <<app, running, req, holders, poisoned, signers, signerOps>>

ListWallets(w) ==
    /\ pc[w] = "locked"
    /\ req[w].method = "list_wallets"
    /\ LET o == ListWalletsHandler(wollets, req[w])
       IN  /\ wollets' = o.wollets
           /\ resp' = [resp EXCEPT ![w] = o.resp]
    /\ pc' = [pc EXCEPT ![w] = "unlocking"]
    /\ UNCHANGED <<app, running, req, holders, poisoned, signers, walletOps, signerOps>>

\* ------------------------------------------------------------ signer engine
\* Recovery phrases a caller may send, and fingerprint texts.
Mnemonics == {"abandon abandon about", "not a mnemonic"}
FingerprintTexts == {"aaaaaaaa", "bbbbbbbb", "zz"}

\* SwSigner::new(&mnemonic): the software signer of a valid phrase.
SwSignerNew(mnemonic) ==
    IF mnemonic = "abandon abandon about"
    THEN [ok |-> TRUE,
          signer |-> [variant |-> "available", kind |-> "software", fingerprint |-> "aaaaaaaa"]]
    ELSE [ok |-> FALSE,
          signer |-> [variant |-> "available", kind |-> "software", fingerprint |-> ""]]

\* The hardware device on the serial port, once opened and unlocked.
JadeSigner == [variant |-> "available", kind |-> "jade", fingerprint |-> "bbbbbbbb"]

\* Fingerprint::from_str: eight hex digits.
FingerprintFromStr(text) ==
    IF text \in {"aaaaaaaa", "bbbbbbbb"}
    THEN [ok |-> TRUE, fingerprint |-> text]
    ELSE [ok |-> FALSE, fingerprint |-> ""]

\* AppSigner::ExternalSigner(fingerprint).
ExternalSigner(fingerprint) ==
    [variant |-> "external", kind |-> "external", fingerprint |-> fingerprint]

\* What the device does during one LoadSigner of kind serial.
JadeOutcomes == {"ok", "no_device", "unlock_fail", "identity_fail"}

\* What the device does when a loaded signer is asked who it is.
IdentityOutcomes == {"ok", "identity_fail"}

\* signer.fingerprint()?, signer.identifier()?, signer.xpub()? of an available
\* signer ask the signer: the hardware device may fail to answer.
IdentityFails(signer, jade) == signer.kind = "jade" /\ jade = "identity_fail"

\* Mutant of SignerResponseFrom: every variant reports an identifier and an
\* extended public key.
SignerResponseFromFull(name, signer) ==
    [name |-> name,
     id |-> {<<"identifier", signer.fingerprint>>},
     fingerprint |-> signer.fingerprint,
     xpub |-> {<<"xpub", signer.fingerprint>>}]

\* signer_response_from(name, signer), when the signer answers: an Option is
\* the empty set (None) or a singleton (Some).
SignerResponseFrom(name, signer) ==
    IF signer.variant = "available"
    THEN [name |-> name,
          id |-> {<<"identifier", signer.fingerprint>>},
          fingerprint |-> signer.fingerprint,
          xpub |-> {<<"xpub", signer.fingerprint>>}]
    ELSE [name |-> name, id |-> {}, fingerprint |-> signer.fingerprint, xpub |-> {}]

\* The match on r.kind of Method::LoadSigner: the signer built, or how the arm
\* ends before it has one.
BuildSigner(params, jade) ==
    CASE params.kind = "software" ->
           IF params.mnemonic = {}
           THEN [end |-> "error", code |-> "Generic", calls |-> <<>>]
           ELSE LET sw == SwSignerNew(CHOOSE m \in params.mnemonic : TRUE)
                IN  IF sw.ok
                    THEN [end |-> "ok", signer |-> sw.signer, calls |-> <<"SwSigner::new">>]
                    ELSE [end |-> "error", code |-> "Signer", calls |-> <<"SwSigner::new">>]
      [] params.kind = "serial" ->
           CASE jade = "no_device" ->
                  [end |-> "error", code |-> "Jade", calls |-> <<"MutexJade::from_serial">>]
             [] jade = "unlock_fail" ->
                  [end |-> "panic", code |-> "",
                   calls |-> <<"MutexJade::from_serial", "unlock">>]
             [] OTHER ->
                  [end |-> "ok", signer |-> JadeSigner,
                   calls |-> <<"MutexJade::from_serial", "unlock">>]
      [] params.kind = "external" ->
           IF params.fingerprint = {}
           THEN [end |-> "error", code |-> "Generic", calls |-> <<>>]
           ELSE LET fp == FingerprintFromStr(CHOOSE f \in params.fingerprint : TRUE)
                IN  IF fp.ok
                    THEN [end |-> "ok", signer |-> ExternalSigner(fp.fingerprint),
                          calls |-> <<"Fingerprint::from_str">>]
                    ELSE [end |-> "error", code |-> "Generic",
                          calls |-> <<"Fingerprint::from_str">>]
      [] OTHER -> [end |-> "error", code |-> "Generic", calls |-> <<>>]

\* Mutant of LoadSignerHandler: a signer loaded under a registered name takes
\* the place of the entry.
LoadSignerHandlerOverwriting(reg, r, jade) ==
    LET b == BuildSigner(r.params, jade)
    IN  CASE b.end = "panic" -> [signers |-> reg, resp |-> Panic(r.id, b.calls)]
          [] b.end = "error" -> [signers |-> reg, resp |-> Failure(r.id, b.code, b.calls)]
          [] OTHER ->
               [signers |-> {e \in reg : e.name # r.params.name}
                              \cup {[name |-> r.params.name, entity |-> b.signer]},
                resp |-> Result(r.id, SignerResponseFrom(r.params.name, b.signer),
                                b.calls \o <<"signer_response_from", "insert">>)]

\* Method::LoadSigner, under the lock.
LoadSignerHandler(reg, r, jade) ==
    LET b == BuildSigner(r.params, jade)
    IN  CASE b.end = "panic" -> [signers |-> reg, resp |-> Panic(r.id, b.calls)]
          [] b.end = "error" -> [signers |-> reg, resp |-> Failure(r.id, b.code, b.calls)]
          [] IdentityFails(b.signer, jade) ->
               [signers |-> reg,
                resp |-> Failure(r.id, "Signer", b.calls \o <<"signer_response_from">>)]
          [] OTHER ->
               LET ins == RegInsert(reg, r.params.name, b.signer)
                   calls == b.calls \o <<"signer_response_from", "insert">>
               IN  IF ins.ok
                   THEN [signers |-> ins.reg,
                         resp |-> Result(r.id, SignerResponseFrom(r.params.name, b.signer), calls)]
                   ELSE [signers |-> reg, resp |-> Failure(r.id, "NameAlreadyExists", calls)]

\* Method::UnloadSigner, under the lock: the entry is removed first, then
\* signer_response_from(&r.name, &removed)? asks the removed signer who it is.
UnloadSignerHandler(reg, r, jade) ==
    LET rem == RegRemove(reg, r.params.name)
    IN  CASE ~rem.ok ->
               [signers |-> reg, resp |-> Failure(r.id, "NameNotFound", <<"remove">>)]
          [] IdentityFails(RegGet(reg, r.params.name), jade) ->
               [signers |-> rem.reg,
                resp |-> Failure(r.id, "Signer", <<"remove", "signer_response_from">>)]
          [] OTHER ->
               [signers |-> rem.reg,
                resp |-> Result(r.id,
                                SignerResponseFrom(r.params.name, RegGet(reg, r.params.name)),
                                <<"remove", "signer_response_from">>)]

\* Method::ListSigners, under the lock.
ListSignersHandler(reg, r, jade) ==
    IF \E e \in reg : IdentityFails(e.entity, jade)
    THEN [signers |-> reg,
          resp |-> Failure(r.id, "Signer", <<"iter", "signer_response_from">>)]
    ELSE [signers |-> reg,
          resp |-> Result(r.id, {SignerResponseFrom(e.name, e.entity) : e \in reg},
                          <<"iter", "signer_response_from">>)]

LoadSigner(w) ==
    /\ pc[w] = "locked"
    /\ req[w].method = "load_signer"
    /\ \E jade \in JadeOutcomes :
         LET o == LoadSignerHandler(signers, req[w], jade)
         IN  /\ signers' = o.signers
             /\ resp' = [resp EXCEPT ![w] = o.resp]
             /\ signerOps' = OpsAfter(signerOps, req[w].params.name, "load", req[w].params.kind, o.resp)
    /\ pc' = [pc EXCEPT ![w] = "unlocking"]
    /\ UNCHANGED <<app, running, req, holders, poisoned, wollets, walletOps>>

UnloadSigner(w) ==
    /\ pc[w] = "locked"
    /\ req[w].method = "unload_signer"
    /\ \E jade \in IdentityOutcomes :
         LET o == UnloadSignerHandler(signers, req[w], jade)
         IN  /\ signers' = o.signers
             /\ resp' = [resp EXCEPT ![w] = o.resp]
             /\ signerOps' = OpsAfter(signerOps, req[w].params.name, "unload", "", o.resp)
    /\ pc' = [pc EXCEPT ![w] = "unlocking"]
    /\ UNCHANGED <<app, running, req, holders, poisoned, wollets, walletOps>>

ListSigners(w) ==
    /\ pc[w] = "locked"
    /\ req[w].method = "list_signers"
    /\ \E jade \in IdentityOutcomes :
         LET o == ListSignersHandler(signers, req[w], jade)
         IN  /\ signers' = o.signers
             /\ resp' = [resp EXCEPT ![w] = o.resp]
    /\ pc' = [pc EXCEPT ![w] = "unlocking"]
    /\ UNCHANGED <<app, running, req, holders, poisoned, wollets, walletOps, signerOps>>

\* ------------------------------------------------------------------ PSETs
\* PSET texts a caller may send: tx1 without and with its signature, tx2 with
\* its signature, and text that is no PSET.
PsetTexts == {"pset(tx1)", "pset(tx1,sig)", "pset(tx2,sig)", "junk"}

\* PartiallySignedTransaction::from_str.
ParsePset(text) ==
    CASE text = "pset(tx1)" -> [ok |-> TRUE, pset |-> [tx |-> "tx1", final |-> FALSE, sigs |-> {}]]
      [] text = "pset(tx1,sig)" -> [ok |-> TRUE, pset |-> [tx |-> "tx1", final |-> TRUE, sigs |-> {}]]
      [] text = "pset(tx2,sig)" -> [ok |-> TRUE, pset |-> [tx |-> "tx2", final |-> TRUE, sigs |-> {}]]
      [] text = "pset(tx1;aaaaaaaa)" ->
           [ok |-> TRUE, pset |-> [tx |-> "tx1", final |-> FALSE, sigs |-> {"aaaaaaaa"}]]
      [] OTHER -> [ok |-> FALSE, pset |-> [tx |-> "", final |-> FALSE, sigs |-> {}]]

\* signer.sign(&mut pset): the signer's signature is added in place.
SignPset(signer, pset) == [pset EXCEPT !.sigs = @ \cup {signer.fingerprint}]

\* pset.to_string().
PsetToString(pset) == <<"pset", pset.tx, pset.final, pset.sigs>>

\* wollet.finalize(&mut pset): the transaction of a PSET holding its signatures.
Finalize(wollet, pset) ==
    IF pset.final
    THEN [ok |-> TRUE, tx |-> pset.tx]
    ELSE [ok |-> FALSE, tx |-> ""]

\* tx.txid().
Txid(tx) == <<"txid", tx>>

\* ----------------------------------------------------------- signer methods
\* state::Signers::get_available: the signer under name, if it can sign.
GetAvailable(reg, name) ==
    CASE ~RegHas(reg, name) -> [ok |-> FALSE, code |-> "NameNotFound"]
      [] RegGet(reg, name).variant = "external" -> [ok |-> FALSE, code |-> "Generic"]
      [] OTHER -> [ok |-> TRUE, code |-> "", signer |-> RegGet(reg, name)]

\* Mutant of SignHandler: the PSET is parsed and signed by whatever signer is
\* registered under the name.
SignHandlerAnySigner(reg, r, up) ==
    LET p == ParsePset(r.params.pset)
    IN  CASE ~RegHas(reg, r.params.name) -> Failure(r.id, "NameNotFound", <<"get">>)
          [] ~p.ok -> Failure(r.id, "Generic", <<"get", "pset_from_str">>)
          [] OTHER -> Result(r.id,
                             [pset |-> PsetToString(SignPset(RegGet(reg, r.params.name), p.pset))],
                             <<"get", "pset_from_str", "sign">>)

\* Method::Sign, under the lock.
SignHandler(reg, r, up) ==
    LET g == GetAvailable(reg, r.params.name)
        p == ParsePset(r.params.pset)
    IN  CASE ~g.ok -> Failure(r.id, g.code, <<"get_available">>)
          [] ~p.ok -> Failure(r.id, "Generic", <<"get_available", "pset_from_str">>)
          [] up = "fail" -> Failure(r.id, "Signer", <<"get_available", "pset_from_str", "sign">>)
          [] OTHER -> Result(r.id, [pset |-> PsetToString(SignPset(g.signer, p.pset))],
                             <<"get_available", "pset_from_str", "sign">>)

\* The texts of r.xpub_kind, r.singlesig_kind, r.descriptor_blinding_key.
XpubKinds == {"bip84", "bip0"}
SinglesigKinds == {"wpkh", "tr"}
BlindingKinds == {"slip77", "none"}

\* Method::Xpub, under the lock.
XpubHandler(reg, r, up) ==
    LET g == GetAvailable(reg, r.params.name)
    IN  CASE ~g.ok -> Failure(r.id, g.code, <<"get_available">>)
          [] r.params.xpub_kind # "bip84" -> Failure(r.id, "Generic", <<"get_available">>)
          [] up = "fail" -> Failure(r.id, "Signer", <<"get_available", "keyorigin_xpub">>)
          [] OTHER -> Result(r.id,
                             [keyorigin_xpub |-> <<"keyorigin", g.signer.fingerprint, "bip84">>],
                             <<"get_available", "keyorigin_xpub">>)

\* Method::SinglesigDescriptor, under the lock: singlesig_desc(..).unwrap().
SinglesigDescriptorHandler(reg, r, up) ==
    LET g == GetAvailable(reg, r.params.name)
    IN  CASE ~g.ok -> Failure(r.id, g.code, <<"get_available">>)
          [] r.params.singlesig_kind # "wpkh" -> Failure(r.id, "Generic", <<"get_available">>)
          [] r.params.descriptor_blinding_key # "slip77" ->
               Failure(r.id, "Generic", <<"get_available">>)
          [] up = "fail" -> Panic(r.id, <<"get_available", "singlesig_desc">>)
          [] OTHER -> Result(r.id,
                             [descriptor |-> <<"ct(slip77,elwpkh)", g.signer.fingerprint>>],
                             <<"get_available", "singlesig_desc">>)

Sign(w) ==
    /\ pc[w] = "locked"
    /\ req[w].method = "sign"
    /\ \E up \in Upstream :
         resp' = [resp EXCEPT ![w] = SignHandler(signers, req[w], up)]
    /\ pc' = [pc EXCEPT ![w] = "unlocking"]
    /\ UNCHANGED <<app, running, req, holders, poisoned, wollets, signers, walletOps, signerOps>>

Xpub(w) ==
    /\ pc[w] = "locked"
    /\ req[w].method = "xpub"
    /\ \E up \in Upstream :
         resp' = [resp EXCEPT ![w] = XpubHandler(signers, req[w], up)]
    /\ pc' = [pc EXCEPT ![w] = "unlocking"]
    /\ UNCHANGED <<app, running, req, holders, poisoned, wollets, signers, walletOps, signerOps>>

SinglesigDescriptor(w) ==
    /\ pc[w] = "locked"
    /\ req[w].method = "singlesig_descriptor"
    /\ \E up \in Upstream :
         resp' = [resp EXCEPT ![w] = SinglesigDescriptorHandler(signers, req[w], up)]
    /\ pc' = [pc EXCEPT ![w] = "unlocking"]
    /\ UNCHANGED <<app, running, req, holders, poisoned, wollets, signers, walletOps, signerOps>>

\* ------------------------------------------------- wallet engine operations
\* What the engine does during one Broadcast.
BroadcastOutcomes == {"ok", "broadcast_fail"}

\* Mutant of BroadcastHandler: dry_run is not looked at.
BroadcastHandlerAlwaysSubmits(reg, r, up) ==
    LET p == ParsePset(r.params.pset)
        f == Finalize(RegGet(reg, r.params.name), p.pset)
    IN  CASE ~RegHas(reg, r.params.name) -> Failure(r.id, "NameNotFound", <<"get_mut">>)
          [] ~p.ok -> Failure(r.id, "Generic", <<"get_mut", "pset_from_str">>)
          [] ~f.ok -> Failure(r.id, "Wollet", <<"get_mut", "pset_from_str", "finalize">>)
          [] up = "broadcast_fail" ->
               Failure(r.id, "Wollet", <<"get_mut", "pset_from_str", "finalize", "broadcast">>)
          [] OTHER ->
               Result(r.id, [txid |-> Txid(f.tx)],
                      <<"get_mut", "pset_from_str", "finalize", "broadcast">>)

\* Method::Broadcast, under the lock.
BroadcastHandler(reg, r, up) ==
    LET p == ParsePset(r.params.pset)
        f == Finalize(RegGet(reg, r.params.name), p.pset)
    IN  CASE ~RegHas(reg, r.params.name) -> Failure(r.id, "NameNotFound", <<"get_mut">>)
          [] ~p.ok -> Failure(r.id, "Generic", <<"get_mut", "pset_from_str">>)
          [] ~f.ok -> Failure(r.id, "Wollet", <<"get_mut", "pset_from_str", "finalize">>)
          [] r.params.dry_run ->
               Result(r.id, [txid |-> Txid(f.tx)], <<"get_mut", "pset_from_str", "finalize">>)
          [] up = "broadcast_fail" ->
               Failure(r.id, "Wollet", <<"get_mut", "pset_from_str", "finalize", "broadcast">>)
          [] OTHER ->
               Result(r.id, [txid |-> Txid(f.tx)],
                      <<"get_mut", "pset_from_str", "finalize", "broadcast">>)

Broadcast(w) ==
    /\ pc[w] = "locked"
    /\ req[w].method = "broadcast"
    /\ \E up \in BroadcastOutcomes :
         resp' = [resp EXCEPT ![w] = BroadcastHandler(wollets, req[w], up)]
    /\ pc' = [pc EXCEPT ![w] = "unlocking"]
    /\ UNCHANGED <<app, running, req, holders, poisoned, wollets, signers, walletOps, signerOps>>

\* What the engine does during one Address, Balance, SendMany or Issue.
QueryOutcomes == {"ok", "sync_fail", "query_fail"}

\* Method::Address, under the lock: sync_txs, then address(index).
AddressHandler(reg, r, up) ==
    CASE ~RegHas(reg, r.params.name) -> Failure(r.id, "NameNotFound", <<"get_mut">>)
      [] up = "sync_fail" -> Failure(r.id, "Wollet", <<"get_mut", "sync_txs">>)
      [] up = "query_fail" -> Failure(r.id, "Wollet", <<"get_mut", "sync_txs", "address">>)
      [] OTHER ->
           Result(r.id,
                  [address |-> <<"address", DescriptorToString(RegGet(reg, r.params.name)),
                                 r.params.index>>,
                   index |-> r.params.index],
                  <<"get_mut", "sync_txs", "address">>)

\* The arms that synchronize the wallet before they query it or build on it.
SyncMethods == {"address", "balance", "send_many", "issue"}

\* The engine call each of them makes after sync_txs.
QueryCall(method) ==
    CASE method = "address" -> "address"
      [] method = "balance" -> "balance"
      [] method = "send_many" -> "send_many"
      [] OTHER -> "issue_asset"

\* A handler on its way: no response yet, calls made so far.
InProgress(calls) == [kind |-> "none", id |-> 0, code |-> "", data |-> "", calls |-> calls]

\* Mutant of ResolveAndSync: the synchronization is started before the name
\* is found missing.
ResolveAndSyncUnresolved(reg, r, up) ==
    CASE ~RegHas(reg, r.params.name) ->
           [synced |-> FALSE, resp |-> Failure(r.id, "NameNotFound", <<"sync_txs", "get_mut">>)]
      [] up = "sync_fail" ->
           [synced |-> FALSE, resp |-> Failure(r.id, "Wollet", <<"get_mut", "sync_txs">>)]
      [] OTHER -> [synced |-> TRUE, resp |-> InProgress(<<"get_mut", "sync_txs">>)]

\* s.wollets.get_mut(&r.name)?; wollet.sync_txs()?; of the four arms.
ResolveAndSync(reg, r, up) ==
    CASE ~RegHas(reg, r.params.name) ->
           [synced |-> FALSE, resp |-> Failure(r.id, "NameNotFound", <<"get_mut">>)]
      [] up = "sync_fail" ->
           [synced |-> FALSE, resp |-> Failure(r.id, "Wollet", <<"get_mut", "sync_txs">>)]
      [] OTHER -> [synced |-> TRUE, resp |-> InProgress(<<"get_mut", "sync_txs">>)]

\* Mutant of SyncedWollets: a wallet whose synchronization fails is dropped
\* from the registry.
SyncedWolletsDropping(reg, name, up) ==
    IF up = "sync_fail"
    THEN {e \in reg : e.name # name}
    ELSE {IF e.name = name THEN [e EXCEPT !.entity.synced = TRUE] ELSE e : e \in reg}

\* The wallet registry after get_mut(&r.name) and wollet.sync_txs(): the
\* wallet under the name, reached through the mutable reference, has taken in
\* the chain data; a failed synchronization leaves it as it was.
SyncedWollets(reg, name, up) ==
    IF up = "sync_fail"
    THEN reg
    ELSE {IF e.name = name THEN [e EXCEPT !.entity.synced = TRUE] ELSE e : e \in reg}

\* What the query or build returns for the wallet.
QueryData(wollet, r) ==
    CASE r.method = "address" ->
           [address |-> <<"address", DescriptorToString(wollet), r.params.index>>,
            index |-> r.params.index]
      [] r.method = "balance" -> [balance |-> <<"balance", DescriptorToString(wollet)>>]
      [] OTHER -> [pset |-> <<"pset", r.method, DescriptorToString(wollet)>>]

\* The rest of the four arms: the query or build, and the response.
QueryHandler(reg, r, up) ==
    IF up = "query_fail"
    THEN Failure(r.id, "Wollet", <<"get_mut", "sync_txs", QueryCall(r.method)>>)
    ELSE Result(r.id, QueryData(RegGet(reg, r.params.name), r),
                <<"get_mut", "sync_txs", QueryCall(r.method)>>)

\* The first half of Method::Address, Balance, SendMany, Issue, under the lock.
SyncTxs(w) ==
    /\ pc[w] = "locked"
    /\ req[w].method \in SyncMethods
    /\ \E up \in {"ok", "sync_fail"} :
         LET o == ResolveAndSync(wollets, req[w], up)
         IN  /\ resp' = [resp EXCEPT ![w] = o.resp]
             /\ pc' = [pc EXCEPT ![w] = IF o.synced THEN "synced" ELSE "unlocking"]
             /\ wollets' = SyncedWollets(wollets, req[w].params.name, up)
    /\ UNCHANGED <<app, running, req, holders, poisoned, signers, walletOps, signerOps>>

\* The second half, still under the lock.
Query(w) ==
    /\ pc[w] = "synced"
    /\ \E up \in {"ok", "query_fail"} :
         resp' = [resp EXCEPT ![w] = QueryHandler(wollets, req[w], up)]
    /\ pc' = [pc EXCEPT ![w] = "unlocking"]
    /\ UNCHANGED <<app, running, req, holders, poisoned, wollets, signers, walletOps, signerOps>>

\* ---------------------------------------------------------- wallet details
\* The printed descriptors the wallet engine knows, with and without the
\* classes WalletDetails tells apart.
CanonicalDescriptors ==
    {"elwpkh(A)#c1", "elwsh(multi(2,A,B))#c2", "elsh(wpkh(C))#c3",
     "elwsh(multi(2,A/0,A/1,B))#c4", "elwsh(and_v(v:pk(A),older(1)))#c5",
     "elwsh(sortedmulti(2,A,B))#c6", "elsh(multi(1,A,C))#c7"}

\* wollet.descriptor().descriptor as the miniscript library sees it: desc_type()
\* (type), the Descriptor variant (variant), what a Wsh wraps (inner), the
\* node of a Wsh miniscript (node) with its threshold and keys.
DescriptorStructure(descriptor) ==
    CASE descriptor = "elwpkh(A)#c1" ->
           [type |-> "Wpkh", variant |-> "Wpkh", inner |-> "", node |-> "",
            threshold |-> 0, keys |-> <<"A">>]
      [] descriptor = "elwsh(multi(2,A,B))#c2" ->
           [type |-> "Wsh", variant |-> "Wsh", inner |-> "Ms", node |-> "Multi",
            threshold |-> 2, keys |-> <<"A", "B">>]
      [] descriptor = "elsh(wpkh(C))#c3" ->
           [type |-> "ShWpkh", variant |-> "Sh", inner |-> "", node |-> "",
            threshold |-> 0, keys |-> <<"C">>]
      [] descriptor = "elwsh(multi(2,A/0,A/1,B))#c4" ->
           [type |-> "Wsh", variant |-> "Wsh", inner |-> "Ms", node |-> "Multi",
            threshold |-> 2, keys |-> <<"A", "A", "B">>]
      [] descriptor = "elwsh(and_v(v:pk(A),older(1)))#c5" ->
           [type |-> "Wsh", variant |-> "Wsh", inner |-> "Ms", node |-> "AndV",
            threshold |-> 0, keys |-> <<"A">>]
      [] descriptor = "elwsh(sortedmulti(2,A,B))#c6" ->
           [type |-> "WshSortedMulti", variant |-> "Wsh", inner |-> "SortedMulti", node |-> "",
            threshold |-> 2, keys |-> <<"A", "B">>]
      [] OTHER ->
           [type |-> "Sh", variant |-> "Sh", inner |-> "", node |-> "",
            threshold |-> 1, keys |-> <<"A", "C">>]

\* The master fingerprint in the origin of a key.
KeyFingerprint(key) ==
    CASE key = "A" -> "aaaaaaaa"
      [] key = "B" -> "bbbbbbbb"
      [] OTHER -> "cccccccc"

\* wollet.signers(): the fingerprints of the descriptor's keys, in order.
WolletSigners(wollet) ==
    LET keys == DescriptorStructure(wollet.descriptor).keys
    IN  [i \in DOMAIN keys |-> KeyFingerprint(keys[i])]

\* The match that computes type_ in Method::WalletDetails.
WalletType(wollet) ==
    LET d == DescriptorStructure(wollet.descriptor)
    IN  CASE d.type = "Wpkh" -> <<"Wpkh">>
          [] d.type = "ShWpkh" -> <<"ShWpkh">>
          [] OTHER ->
               IF d.variant = "Wsh"
               THEN IF d.inner = "Ms"
                    THEN IF d.node = "Multi"
                         THEN <<"WshMulti", d.threshold, Len(d.keys)>>
                         ELSE <<"Unknown">>
                    ELSE <<"Unknown">>
               ELSE <<"Unknown">>

\* The digits of a small number.
Digit(n) == CASE n = 0 -> "0" [] n = 1 -> "1" [] n = 2 -> "2" [] n = 3 -> "3" [] OTHER -> "?"

\* type_.to_string().
WalletTypeToString(type) ==
    CASE type[1] = "Wpkh" -> "wpkh"
      [] type[1] = "ShWpkh" -> "sh_wpkh"
      [] type[1] = "WshMulti" -> "wsh_multi_" \o Digit(type[2]) \o "of" \o Digit(type[3])
      [] OTHER -> "unknown"

\* The name reported for a fingerprint no single signer answers to.
Placeholder == "<unknown>"

\* state::Signers::name_from_fingerprint(fingerprint, &mut warnings).
NameFromFingerprint(reg, fingerprint, warnings) ==
    LET names == {e.name : e \in {x \in reg : x.entity.fingerprint = fingerprint}}
    IN  CASE names = {} ->
               [name |-> Placeholder,
                warnings |-> Append(warnings, "unknown fingerprint " \o fingerprint)]
          [] Cardinality(names) = 1 ->
               [name |-> CHOOSE n \in names : TRUE, warnings |-> warnings]
          [] OTHER ->
               [name |-> Placeholder,
                warnings |-> Append(warnings, "multiple signers with fingerprint " \o fingerprint)]

\* fingerprints.iter().map(|f| SignerDetails { name: name_from_fingerprint(f,
\* &mut warnings), fingerprint: *f }).collect(), with warnings as it goes in.
RECURSIVE ResolveSigners(_, _, _)
ResolveSigners(reg, fingerprints, warnings) ==
    IF fingerprints = <<>>
    THEN [signers |-> <<>>, warnings |-> warnings]
    ELSE LET first == NameFromFingerprint(reg, Head(fingerprints), warnings)
             rest == ResolveSigners(reg, Tail(fingerprints), first.warnings)
         IN  [signers |-> <<[name |-> first.name, fingerprint |-> Head(fingerprints)]>>
                            \o rest.signers,
              warnings |-> rest.warnings]

\* wollet.signers().into_iter().all(|f| hs.insert(f)).
HasUniqueFingerprints(fingerprints) ==
    \A i, j \in DOMAIN fingerprints : i # j => fingerprints[i] # fingerprints[j]

DuplicateWarning == "wallet has multiple signers with the same fingerprint"

\* warnings.join(", ").
RECURSIVE Join(_)
Join(warnings) ==
    CASE warnings = <<>> -> ""
      [] Len(warnings) = 1 -> warnings[1]
      [] OTHER -> warnings[1] \o ", " \o Join(Tail(warnings))

\* Mutant of WalletDetailsWarnings: the duplicate check looks at the signer
\* registry and not at the wallet's own fingerprints.
WalletDetailsWarningsByRegistry(wollet, reg) ==
    LET dup == \E e1, e2 \in reg :
                   e1.name # e2.name /\ e1.entity.fingerprint = e2.entity.fingerprint
        start == IF dup THEN <<DuplicateWarning>> ELSE <<>>
    IN  ResolveSigners(reg, WolletSigners(wollet), start).warnings

\* The Vec warnings of Method::WalletDetails when the arm ends.
WalletDetailsWarnings(wollet, reg) ==
    LET start == IF HasUniqueFingerprints(WolletSigners(wollet))
                 THEN <<>>
                 ELSE <<DuplicateWarning>>
    IN  ResolveSigners(reg, WolletSigners(wollet), start).warnings

\* Mutant of WalletDetailsHandler: the warnings are not reported.
WalletDetailsHandlerNoWarnings(wreg, sreg, r) ==
    IF ~RegHas(wreg, r.params.name)
    THEN Failure(r.id, "NameNotFound", <<"get_mut">>)
    ELSE LET wollet == RegGet(wreg, r.params.name)
         IN  Result(r.id,
                    [type_ |-> WalletTypeToString(WalletType(wollet)),
                     signers |-> ResolveSigners(sreg, WolletSigners(wollet), <<>>).signers,
                     warnings |-> ""],
                    <<"get_mut", "descriptor", "signers", "name_from_fingerprint">>)

\* Mutant of WalletDetailsHandler: an Unknown wallet type is an error.
WalletDetailsHandlerStrict(wreg, sreg, r) ==
    IF ~RegHas(wreg, r.params.name)
    THEN Failure(r.id, "NameNotFound", <<"get_mut">>)
    ELSE LET wollet == RegGet(wreg, r.params.name)
         IN  IF WalletType(wollet) = <<"Unknown">>
             THEN Failure(r.id, "Generic", <<"get_mut", "descriptor">>)
             ELSE Result(r.id,
                         [type_ |-> WalletTypeToString(WalletType(wollet)),
                          signers |-> ResolveSigners(sreg, WolletSigners(wollet), <<>>).signers,
                          warnings |-> Join(WalletDetailsWarnings(wollet, sreg))],
                         <<"get_mut", "descriptor", "signers", "name_from_fingerprint">>)

\* Method::WalletDetails, under the lock.
WalletDetailsHandler(wreg, sreg, r) ==
    IF ~RegHas(wreg, r.params.name)
    THEN Failure(r.id, "NameNotFound", <<"get_mut">>)
    ELSE LET wollet == RegGet(wreg, r.params.name)
         IN  Result(r.id,
                    [type_ |-> WalletTypeToString(WalletType(wollet)),
                     signers |-> ResolveSigners(sreg, WolletSigners(wollet), <<>>).signers,
                     warnings |-> Join(WalletDetailsWarnings(wollet, sreg))],
                    <<"get_mut", "descriptor", "signers", "name_from_fingerprint">>)

WalletDetails(w) ==
    /\ pc[w] = "locked"
    /\ req[w].method = "wallet_details"
    /\ resp' = [resp EXCEPT ![w] = WalletDetailsHandler(wollets, signers, req[w])]
    /\ pc' = [pc EXCEPT ![w] = "unlocking"]
    /\ UNCHANGED <<app, running, req, holders, poisoned, wollets, signers, walletOps, signerOps>>

\* Keep the elements of a sequence that are (keep) or are not in a set.
RECURSIVE Filter(_, _, _)
Filter(seq, set, keep) ==
    IF seq = <<>>
    THEN <<>>
    ELSE IF (Head(seq) \in set) = keep
         THEN <<Head(seq)>> \o Filter(Tail(seq), set, keep)
         ELSE Filter(Tail(seq), set, keep)

\* wollet.get_details(&pset): the wallet's fingerprints that have signed the
\* PSET, and those that have not.
GetDetails(wollet, pset) ==
    [fingerprints_has |-> Filter(WolletSigners(wollet), pset.sigs, TRUE),
     fingerprints_missing |-> Filter(WolletSigners(wollet), pset.sigs, FALSE)]

\* Mutant of WalletPsetDetailsWarnings: the duplicate check of WalletDetails
\* runs here too.
WalletPsetDetailsWarningsWithCheck(wollet, reg, pset) ==
    LET d == GetDetails(wollet, pset)
        start == IF HasUniqueFingerprints(WolletSigners(wollet))
                 THEN <<>>
                 ELSE <<DuplicateWarning>>
        has == ResolveSigners(reg, d.fingerprints_has, start)
    IN  ResolveSigners(reg, d.fingerprints_missing, has.warnings).warnings

\* The Vec warnings of Method::WalletPsetDetails when the arm ends.
WalletPsetDetailsWarnings(wollet, reg, pset) ==
    LET d == GetDetails(wollet, pset)
        has == ResolveSigners(reg, d.fingerprints_has, <<>>)
    IN  ResolveSigners(reg, d.fingerprints_missing, has.warnings).warnings

\* What the engine does during one WalletPsetDetails.
DetailsOutcomes == {"ok", "details_fail"}

\* Method::WalletPsetDetails, under the lock.
WalletPsetDetailsHandler(wreg, sreg, r, up) ==
    LET p == ParsePset(r.params.pset)
    IN  CASE ~RegHas(wreg, r.params.name) -> Failure(r.id, "NameNotFound", <<"get_mut">>)
          [] ~p.ok -> Failure(r.id, "Generic", <<"get_mut", "pset_from_str">>)
          [] up = "details_fail" ->
               Failure(r.id, "Wollet", <<"get_mut", "pset_from_str", "get_details">>)
          [] OTHER ->
               LET wollet == RegGet(wreg, r.params.name)
                   d == GetDetails(wollet, p.pset)
                   has == ResolveSigners(sreg, d.fingerprints_has, <<>>)
                   missing == ResolveSigners(sreg, d.fingerprints_missing, has.warnings)
               IN  Result(r.id,
                          [has_signatures_from |-> has.signers,
                           missing_signatures_from |-> missing.signers,
                           warnings |-> Join(WalletPsetDetailsWarnings(wollet, sreg, p.pset))],
                          <<"get_mut", "pset_from_str", "get_details", "name_from_fingerprint">>)

WalletPsetDetails(w) ==
    /\ pc[w] = "locked"
    /\ req[w].method = "wallet_pset_details"
    /\ \E up \in DetailsOutcomes :
         resp' = [resp EXCEPT ![w] = WalletPsetDetailsHandler(wollets, signers, req[w], up)]
    /\ pc' = [pc EXCEPT ![w] = "unlocking"]
    /\ UNCHANGED <<app, running, req, holders, poisoned, wollets, signers, walletOps, signerOps>>

\* ----------------------------------------------- combine and asset details
\* The PSET lists a caller may send to WalletCombine: two PSETs of one
\* transaction, one that is no PSET, PSETs of two transactions, and none.
PsetLists ==
    {<<"pset(tx1)", "pset(tx1;aaaaaaaa)">>, <<"pset(tx1)", "junk">>,
     <<"pset(tx1)", "pset(tx2,sig)">>, <<>>}

\* wollet.combine(&psets): one PSET holding the signatures of all, when there
\* is at least one and they are of one transaction.
Combine(wollet, psets) ==
    IF psets # <<>> /\ \A i \in DOMAIN psets : psets[i].tx = psets[1].tx
    THEN [ok |-> TRUE,
          pset |-> [tx |-> psets[1].tx,
                    final |-> \E i \in DOMAIN psets : psets[i].final,
                    sigs |-> UNION {psets[i].sigs : i \in DOMAIN psets}]]
    ELSE [ok |-> FALSE, pset |-> [tx |-> "", final |-> FALSE, sigs |-> {}]]

\* Method::WalletCombine, under the lock.
WalletCombineHandler(reg, r) ==
    LET parsed == [i \in DOMAIN r.params.pset |-> ParsePset(r.params.pset[i])]
        psets == [i \in DOMAIN parsed |-> parsed[i].pset]
        c == Combine(RegGet(reg, r.params.name), psets)
    IN  CASE ~RegHas(reg, r.params.name) -> Failure(r.id, "NameNotFound", <<"get_mut">>)
          [] \E i \in DOMAIN parsed : ~parsed[i].ok ->
               Failure(r.id, "Generic", <<"get_mut", "pset_from_str">>)
          [] ~c.ok -> Failure(r.id, "Wollet", <<"get_mut", "pset_from_str", "combine">>)
          [] OTHER -> Result(r.id, [pset |-> PsetToString(c.pset)],
                             <<"get_mut", "pset_from_str", "combine">>)

WalletCombine(w) ==
    /\ pc[w] = "locked"
    /\ req[w].method = "wallet_combine"
    /\ resp' = [resp EXCEPT ![w] = WalletCombineHandler(wollets, req[w])]
    /\ pc' = [pc EXCEPT ![w] = "unlocking"]
    /\ UNCHANGED <<app, running, req, holders, poisoned, wollets, signers, walletOps, signerOps>>

\* Asset id texts a caller may send: the policy asset, an asset the cache
\* does not hold, and text that is no asset id.
AssetIdTexts == {"policy", "other", "nothex"}

\* The asset cache of State: the policy asset is registered at startup.
KnownAssets == {"policy"}

\* Method::AssetDetails, under the lock: AssetId::from_str, then s.get_asset.
AssetDetailsHandler(r) ==
    CASE r.params.asset_id = "nothex" -> Failure(r.id, "Generic", <<"asset_id_from_str">>)
      [] r.params.asset_id \notin KnownAssets ->
           Failure(r.id, "AssetNotFound", <<"asset_id_from_str", "get_asset">>)
      [] OTHER -> Result(r.id, [name |-> <<"name", r.params.asset_id>>],
                         <<"asset_id_from_str", "get_asset">>)

AssetDetails(w) ==
    /\ pc[w] = "locked"
    /\ req[w].method = "asset_details"
    /\ resp' = [resp EXCEPT ![w] = AssetDetailsHandler(req[w])]
    /\ pc' = [pc EXCEPT ![w] = "unlocking"]
    /\ UNCHANGED <<app, running, req, holders, poisoned, wollets, signers, walletOps, signerOps>>

\* ---------------------------------------------------- methods without lock
\* consts::APP_VERSION.
AppVersion == "APP_VERSION"

\* A lock-free arm ends: the worker has its response without touching State.
Finish(w, response) ==
    /\ resp' = [resp EXCEPT ![w] = response]
    /\ pc' = [pc EXCEPT ![w] = "done"]
    /\ UNCHANGED <<app, running, req, holders, poisoned, wollets, signers, walletOps, signerOps>>

\* Method::Schema.
SchemaHandler(r) ==
    CASE DeserializeParams("schema", r.params) # "ok" -> Failure(r.id, "InvalidParams", <<>>)
      [] ~ParseMethod(r.params.method).ok -> Failure(r.id, "MethodNotExist", <<>>)
      [] OTHER -> Result(r.id, [schema |-> r.params.method, direction |-> r.params.direction],
                         <<"schema">>)

Schema(w) ==
    /\ pc[w] = "called"
    /\ req[w].method = "schema"
    /\ Finish(w, SchemaHandler(req[w]))

\* Method::GenerateSigner: SwSigner::random()?; the signer is dropped.
GenerateSignerHandler(r, up) ==
    IF up = "fail"
    THEN Failure(r.id, "Signer", <<"SwSigner::random">>)
    ELSE Result(r.id, [mnemonic |-> "abandon abandon about"], <<"SwSigner::random">>)

GenerateSigner(w) ==
    /\ pc[w] = "called"
    /\ req[w].method = "generate_signer"
    /\ \E up \in Upstream : Finish(w, GenerateSignerHandler(req[w], up))

\* Method::Version.
VersionHandler(r) == Result(r.id, [version |-> AppVersion], <<>>)

Version(w) ==
    /\ pc[w] = "called"
    /\ req[w].method = "version"
    /\ Finish(w, VersionHandler(req[w]))

\* The texts of r.multisig_kind and of one key-origin xpub.
MultisigKinds == {"wsh", "sh"}
KeyoriginXpubs == {"[aaaaaaaa/87h]xpubA", "[bbbbbbbb/87h]xpubB", "xpub?"}

\* keyorigin_xpub_from_str.
KeyoriginXpubOk(text) == text # "xpub?"

\* Method::MultisigDescriptor.
MultisigDescriptorHandler(r) ==
    LET d == DeserializeParams("multisig_descriptor", r.params)
    IN  CASE d = "panic" -> Panic(r.id, <<>>)
          [] d = "error" -> Failure(r.id, "InvalidParams", <<>>)
          [] r.params.multisig_kind # "wsh" -> Failure(r.id, "Generic", <<>>)
          [] r.params.descriptor_blinding_key # "slip77" -> Failure(r.id, "Generic", <<>>)
          [] \E k \in 1..Len(r.params.keyorigin_xpubs) :
                 ~KeyoriginXpubOk(r.params.keyorigin_xpubs[k]) ->
               Failure(r.id, "Generic", <<"keyorigin_xpub_from_str">>)
          [] r.params.threshold = 0 \/ r.params.threshold > Len(r.params.keyorigin_xpubs) ->
               Failure(r.id, "Common", <<"keyorigin_xpub_from_str", "multisig_desc">>)
          [] OTHER ->
               Result(r.id,
                      [descriptor |-> <<"ct(slip77,elwsh(multi))", r.params.threshold,
                                        r.params.keyorigin_xpubs>>],
                      <<"keyorigin_xpub_from_str", "multisig_desc">>)

MultisigDescriptor(w) ==
    /\ pc[w] = "called"
    /\ req[w].method = "multisig_descriptor"
    /\ Finish(w, MultisigDescriptorHandler(req[w]))

\* The texts of r.issuer_pubkey, and whether Contract::validate accepts.
IssuerPubkeys == {"02ab", "xyz"}

\* Method::Contract.
ContractHandler(r) ==
    LET d == DeserializeParams("contract", r.params)
    IN  CASE d = "panic" -> Panic(r.id, <<>>)
          [] d = "error" -> Failure(r.id, "InvalidParams", <<>>)
          [] r.params.issuer_pubkey # "02ab" -> Failure(r.id, "Hex", <<"from_hex">>)
          [] ~r.params.valid -> Failure(r.id, "Wollet", <<"from_hex", "validate">>)
          [] OTHER -> Result(r.id, [contract |-> r.params], <<"from_hex", "validate">>)

Contract(w) ==
    /\ pc[w] = "called"
    /\ req[w].method = "contract"
    /\ Finish(w, ContractHandler(req[w]))

\* Method::Stop: return Err(Error::Stop), the sentinel that stops the server.
StopHandler(r) ==
    [kind |-> "stop", id |-> r.id, code |-> "Stop", data |-> "", calls |-> <<>>]

Stop(w) ==
    /\ pc[w] = "called"
    /\ req[w].method = "stop"
    /\ Finish(w, StopHandler(req[w]))

\* ---------------------------------------------------------------- requests
Absent == [shape |-> "absent"]
Malformed == [shape |-> "malformed"]

ReqOf(method, params) == {[method |-> method, id |-> i, params |-> params] : i \in Ids}

BadParamRequests(methods) ==
    UNION {ReqOf(m, Absent) \cup ReqOf(m, Malformed) : m \in methods}

\* The requests of a set that carry the first id.
FirstId(requests) == {r \in requests : r.id = 1}

\* The requests of a set that name one of names (or name nothing).
Naming(requests, names) ==
    {r \in requests : r.params.shape = "ok" => r.params.name \in names}

LoadWalletRequests ==
    UNION {ReqOf("load_wallet", [shape |-> "ok", name |-> n, descriptor |-> d]) :
             n \in WalletNames, d \in DescriptorTexts}

UnloadWalletRequests ==
    UNION {ReqOf("unload_wallet", [shape |-> "ok", name |-> n]) : n \in WalletNames}

ListWalletsRequests == ReqOf("list_wallets", Absent)

UnknownRequests == UNION {ReqOf(m, Absent) : m \in UnknownMethods}

VersionRequests == ReqOf("version", Absent)

StopRequests == ReqOf("stop", Absent)

\* r.mnemonic and r.fingerprint are Options: the empty set or a singleton.
SignerKinds ==
    {[kind |-> "software", mnemonic |-> {"abandon abandon about"}, fingerprint |-> {}],
     [kind |-> "software", mnemonic |-> {"not a mnemonic"}, fingerprint |-> {}],
     [kind |-> "software", mnemonic |-> {}, fingerprint |-> {}],
     [kind |-> "serial", mnemonic |-> {}, fingerprint |-> {}],
     [kind |-> "external", mnemonic |-> {}, fingerprint |-> {"aaaaaaaa"}],
     [kind |-> "external", mnemonic |-> {}, fingerprint |-> {"bbbbbbbb"}],
     [kind |-> "external", mnemonic |-> {}, fingerprint |-> {"zz"}],
     [kind |-> "external", mnemonic |-> {}, fingerprint |-> {}],
     [kind |-> "usb", mnemonic |-> {}, fingerprint |-> {}]}

LoadSignerParams(names, kinds) ==
    {[shape |-> "ok", name |-> n, kind |-> k.kind, mnemonic |-> k.mnemonic,
      fingerprint |-> k.fingerprint] : n \in names, k \in kinds}

LoadSignerRequests ==
    UNION {ReqOf("load_signer", p) : p \in LoadSignerParams(SignerNames, SignerKinds)}

UnloadSignerRequests ==
    UNION {ReqOf("unload_signer", [shape |-> "ok", name |-> n]) : n \in SignerNames}

ListSignersRequests == ReqOf("list_signers", Absent)

SignRequests ==
    UNION {ReqOf("sign", [shape |-> "ok", name |-> n, pset |-> t]) :
             n \in SignerNames, t \in {"pset(tx1)", "junk"}}

XpubRequests ==
    UNION {ReqOf("xpub", [shape |-> "ok", name |-> n, xpub_kind |-> k]) :
             n \in SignerNames, k \in XpubKinds}

SinglesigDescriptorRequests ==
    UNION {ReqOf("singlesig_descriptor",
                 [shape |-> "ok", name |-> n, singlesig_kind |-> k,
                  descriptor_blinding_key |-> b]) :
             n \in SignerNames, k \in SinglesigKinds, b \in BlindingKinds}

BroadcastRequests ==
    UNION {ReqOf("broadcast", [shape |-> "ok", name |-> n, pset |-> t, dry_run |-> d]) :
             n \in WalletNames, t \in PsetTexts, d \in BOOLEAN}

\* r.index is an Option: the empty set asks for the next unused index.
AddressRequests ==
    UNION {ReqOf("address", [shape |-> "ok", name |-> n, index |-> i]) :
             n \in WalletNames, i \in {{}, {0}}}

\* ----------------------------------------------------------- specifications
\* The wallet registry's methods, an unknown method and Stop, on every worker.
WalletRequests ==
    FirstId(LoadWalletRequests \cup UnloadWalletRequests \cup StopRequests)
      \cup ListWalletsRequests \cup UnknownRequests

NextWallet ==
    \E w \in Workers :
        \/ Receive(w, WalletRequests)
        \/ Unimplemented(w)
        \/ Stop(w)
        \/ Deserialize(w)
        \/ Acquire(w)
        \/ LoadWallet(w)
        \/ UnloadWallet(w)
        \/ ListWallets(w)
        \/ Release(w)
        \/ Reply(w)

SpecWallet == Init /\ [][NextWallet]_vars

\* Signers that load: a software signer, the hardware device, an external one.
LoadableSignerRequests ==
    {r \in LoadSignerRequests :
       \/ r.params.mnemonic = {"abandon abandon about"}
       \/ r.params.kind = "serial"
       \/ r.params.fingerprint = {"aaaaaaaa"}}

\* The signer registry's methods and the methods that need a signer.
SignerRequests ==
    FirstId(LoadableSignerRequests
              \cup Naming(UnloadSignerRequests \cup SignRequests \cup XpubRequests
                            \cup SinglesigDescriptorRequests, {"s1"}))

NextSigner ==
    \E w \in Workers :
        \/ Receive(w, SignerRequests)
        \/ Deserialize(w)
        \/ Acquire(w)
        \/ AcquirePoisoned(w)
        \/ LoadSigner(w)
        \/ UnloadSigner(w)
        \/ Sign(w)
        \/ Xpub(w)
        \/ SinglesigDescriptor(w)
        \/ Release(w)
        \/ Reply(w)

SpecSigner == Init /\ [][NextSigner]_vars

\* Loads and unloads on both registries, beside a method that takes no lock.
RegistryRequests ==
    FirstId({r \in LoadWalletRequests :
               \/ r.params.descriptor = "elwpkh(A)"
               \/ r.params.descriptor = "garbage" /\ r.params.name = "w1"}
              \cup UnloadWalletRequests
              \cup Naming(LoadableSignerRequests \cup UnloadSignerRequests, {"s1"})
              \cup VersionRequests)

NextRegistry ==
    \E w \in Workers :
        \/ Receive(w, RegistryRequests)
        \/ Deserialize(w)
        \/ Version(w)
        \/ Acquire(w)
        \/ AcquirePoisoned(w)
        \/ LoadWallet(w)
        \/ UnloadWallet(w)
        \/ LoadSigner(w)
        \/ UnloadSigner(w)
        \/ Release(w)
        \/ Reply(w)

SpecRegistry == Init /\ [][NextRegistry]_vars

\* Broadcast on wallets that are loaded and unloaded meanwhile.
BroadcastSpecRequests ==
    FirstId({r \in LoadWalletRequests : r.params.descriptor = "elwpkh(A)#c1"}
              \cup Naming(UnloadWalletRequests, {"w1"})
              \cup Naming(BroadcastRequests, {"w1"}))

NextBroadcast ==
    \E w \in Workers :
        \/ Receive(w, BroadcastSpecRequests)
        \/ Deserialize(w)
        \/ Acquire(w)
        \/ LoadWallet(w)
        \/ UnloadWallet(w)
        \/ Broadcast(w)
        \/ Release(w)
        \/ Reply(w)

SpecBroadcast == Init /\ [][NextBroadcast]_vars

\* Every method with its parameters absent or malformed, and the methods
\* without lock with parameters of the right shape.
SchemaRequests ==
    UNION {ReqOf("schema", [shape |-> "ok", method |-> m, direction |-> d]) :
             m \in {"balance", "frobnicate"}, d \in {"request", "response"}}

MultisigDescriptorRequests ==
    UNION {ReqOf("multisig_descriptor",
                 [shape |-> "ok", threshold |-> t, keyorigin_xpubs |-> ks,
                  multisig_kind |-> k, descriptor_blinding_key |-> b]) :
             t \in {2, 3}, k \in MultisigKinds, b \in BlindingKinds,
             ks \in {<<"[aaaaaaaa/87h]xpubA", "[bbbbbbbb/87h]xpubB">>,
                     <<"[aaaaaaaa/87h]xpubA", "xpub?">>}}

\* valid: whether Contract::validate accepts the contract's fields.
ContractRequests ==
    UNION {ReqOf("contract", [shape |-> "ok", issuer_pubkey |-> k, valid |-> v]) :
             k \in IssuerPubkeys, v \in BOOLEAN}

ParamRequests ==
    FirstId(BadParamRequests(Methods) \cup UnknownRequests \cup SchemaRequests
              \cup MultisigDescriptorRequests \cup ContractRequests)

NextParams ==
    \E w \in Workers :
        \/ Receive(w, ParamRequests)
        \/ Unimplemented(w)
        \/ Deserialize(w)
        \/ Schema(w)
        \/ GenerateSigner(w)
        \/ Version(w)
        \/ MultisigDescriptor(w)
        \/ Contract(w)
        \/ Stop(w)
        \/ Acquire(w)
        \/ ListWallets(w)
        \/ ListSigners(w)
        \/ Release(w)
        \/ Reply(w)

SpecParams == Init /\ [][NextParams]_vars

\* WalletDetails and WalletPsetDetails on one wallet name, loaded with each
\* class of descriptor, while signers that share or miss its fingerprints are
\* loaded and unloaded.
WalletDetailsRequests ==
    UNION {ReqOf("wallet_details", [shape |-> "ok", name |-> n]) : n \in WalletNames}

WalletPsetDetailsRequests ==
    UNION {ReqOf("wallet_pset_details", [shape |-> "ok", name |-> n, pset |-> p]) :
             n \in WalletNames, p \in {"pset(tx1)", "pset(tx1;aaaaaaaa)", "junk"}}

DetailsRequests ==
    FirstId({r \in UNION {ReqOf("load_wallet", [shape |-> "ok", name |-> "w1", descriptor |-> d]) :
                            d \in CanonicalDescriptors} : TRUE}
              \cup {r \in LoadSignerRequests :
                      \/ r.params.kind = "external" /\ r.params.fingerprint = {"aaaaaaaa"}
                                                   /\ r.params.mnemonic = {}
                      \/ r.params.kind = "software" /\ r.params.name = "s1"
                           /\ r.params.mnemonic = {"abandon abandon about"}
                           /\ r.params.fingerprint = {}}
              \cup Naming(UnloadSignerRequests, {"s1"})
              \cup Naming(WalletDetailsRequests, {"w1"})
              \cup Naming(WalletPsetDetailsRequests, {"w1"}))

NextDetails ==
    \E w \in Workers :
        \/ Receive(w, DetailsRequests)
        \/ Deserialize(w)
        \/ Acquire(w)
        \/ LoadWallet(w)
        \/ LoadSigner(w)
        \/ UnloadSigner(w)
        \/ WalletDetails(w)
        \/ WalletPsetDetails(w)
        \/ Release(w)
        \/ Reply(w)

SpecDetails == Init /\ [][NextDetails]_vars

\* Every shape of LoadSigner, with UnloadSigner and ListSigners.
SignerLifeRequests ==
    FirstId(Naming(LoadSignerRequests \cup UnloadSignerRequests, {"s1"})
              \cup {r \in Naming(LoadableSignerRequests, {"s2"}) : r.params.kind # "serial"}
              \cup ListSignersRequests)

NextSignerLife ==
    \E w \in Workers :
        \/ Receive(w, SignerLifeRequests)
        \/ Deserialize(w)
        \/ Acquire(w)
        \/ AcquirePoisoned(w)
        \/ LoadSigner(w)
        \/ UnloadSigner(w)
        \/ ListSigners(w)
        \/ Release(w)
        \/ Reply(w)

SpecSignerLife == Init /\ [][NextSignerLife]_vars

\* ---------------------------------------------------------------- the App
\* App::new: no server yet.
NotStarted == [rpc |-> FALSE, at |-> "ready", runs |-> 0, call |-> "new", result |-> "Ok"]

InitApp ==
    /\ pc = [w \in Workers |-> "idle"]
    /\ req = [w \in Workers |-> NoReq]
    /\ resp = [w \in Workers |-> NoResp]
    /\ holders = {}
    /\ poisoned = FALSE
    /\ app = NotStarted
    /\ wollets = {}
    /\ signers = {}
    /\ running = FALSE
    /\ walletOps = [n \in WalletNames |-> [op |-> "none", arg |-> ""]]
    /\ signerOps = [n \in SignerNames |-> [op |-> "none", arg |-> ""]]

\* The owner of the App returns from a call that changed nothing but app.
Returns(call, result) ==
    /\ app' = [app EXCEPT !.call = call, !.result = result]
    /\ UNCHANGED <<pc, req, resp, holders, poisoned, wollets, signers, running,
                   walletOps, signerOps>>

\* What tiny_http::Server::http(addr) does.
BindOutcomes == {"ok", "bind_fail"}

\* Mutant of AppRunInstalls: run on a started App installs a session state
\* all the same.
AppRunInstallsAlways(outcome) == outcome = "ok"

\* App::run gets as far as installing a new server and session state.
AppRunInstalls(outcome) == ~app.rpc /\ outcome = "ok"

\* App::run.
AppRun ==
    /\ app.at = "ready"
    /\ \E outcome \in BindOutcomes :
         CASE AppRunInstalls(outcome) ->
                /\ app.runs < MaxRuns
                /\ app' = [rpc |-> TRUE, at |-> "ready", runs |-> app.runs + 1,
                           call |-> "run", result |-> "Ok"]
                /\ wollets' = {}
                /\ signers' = {}
                /\ holders' = {}
                /\ poisoned' = FALSE
                /\ running' = TRUE
                /\ walletOps' = [n \in WalletNames |-> [op |-> "none", arg |-> ""]]
                /\ signerOps' = [n \in SignerNames |-> [op |-> "none", arg |-> ""]]
                /\ UNCHANGED <<pc, req, resp>>
           [] app.rpc -> Returns("run", "AlreadyStarted")
           [] OTHER -> Returns("run", "Io")

\* App::stop.
AppStop ==
    /\ app.at = "ready"
    /\ IF app.rpc
       THEN /\ running' = FALSE
            /\ app' = [app EXCEPT !.call = "stop", !.result = "Ok"]
            /\ UNCHANGED <<pc, req, resp, holders, poisoned, wollets, signers,
                           walletOps, signerOps>>
       ELSE Returns("stop", "NotStarted")

\* App::is_running.
AppIsRunning ==
    /\ app.at = "ready"
    /\ IF app.rpc
       THEN Returns("is_running", IF running THEN "Ok(true)" ELSE "Ok(false)")
       ELSE Returns("is_running", "NotStarted")

\* Mutant of RpcAfterTake: join_threads reads App::rpc and leaves it in place.
RpcAfterTakeKept == TRUE

\* self.rpc.take() leaves None in App::rpc.
RpcAfterTake == FALSE

\* App::join_threads: self.rpc.take(), then the wait for the server's threads
\* begins.
AppJoinThreads ==
    /\ app.at = "ready"
    /\ IF app.rpc
       THEN /\ app' = [app EXCEPT !.rpc = RpcAfterTake, !.at = "joining", !.call = "join_threads",
                                  !.result = "pending"]
            /\ UNCHANGED <<pc, req, resp, holders, poisoned, wollets, signers, running,
                           walletOps, signerOps>>
       ELSE Returns("join_threads", "NotStarted")

\* join_threads returns: the server was stopped and its workers have ended.
AppJoined ==
    /\ app.at = "joining"
    /\ ~running
    /\ \A w \in Workers : pc[w] = "idle"
    /\ app' = [app EXCEPT !.at = "ready", !.result = "Ok"]
    /\ UNCHANGED <<pc, req, resp, holders, poisoned, wollets, signers, running,
                   walletOps, signerOps>>

\* The calls of the App's owner, beside a server that answers Version,
\* LoadWallet and Stop.
AppRequests ==
    FirstId(VersionRequests \cup StopRequests
              \cup {r \in Naming(LoadWalletRequests, {"w1"}) :
                      r.params.descriptor = "elwpkh(A)#c1"})

NextApp ==
    \/ AppRun
    \/ AppStop
    \/ AppIsRunning
    \/ AppJoinThreads
    \/ AppJoined
    \/ \E w \in Workers :
        \/ Receive(w, AppRequests)
        \/ Deserialize(w)
        \/ Version(w)
        \/ Stop(w)
        \/ Acquire(w)
        \/ LoadWallet(w)
        \/ Release(w)
        \/ Reply(w)

SpecApp == InitApp /\ [][NextApp]_vars

\* Stop beside requests that load and list wallets.  A worker thread that has
\* a request keeps running until the request is answered: each worker's steps
\* are weakly fair.
StopSpecRequests ==
    FirstId(StopRequests \cup VersionRequests \cup ListWalletsRequests
              \cup {r \in Naming(LoadWalletRequests, {"w1"}) :
                      r.params.descriptor = "elwpkh(A)#c1"})

\* A step of worker w on the request it has.
Progress(w) ==
    \/ Deserialize(w)
    \/ Version(w)
    \/ Stop(w)
    \/ Acquire(w)
    \/ LoadWallet(w)
    \/ ListWallets(w)
    \/ Release(w)
    \/ Reply(w)

NextStop ==
    \E w \in Workers :
        \/ Receive(w, StopSpecRequests)
        \/ Progress(w)

SpecStop == Init /\ [][NextStop]_vars /\ \A w \in Workers : WF_vars(Progress(w))

\* Address, Balance, SendMany and Issue on a wallet that is loaded and
\* unloaded meanwhile.
SyncedRequests ==
    UNION {ReqOf(m, [shape |-> "ok", name |-> n]) :
             m \in {"balance", "send_many", "issue"}, n \in WalletNames}

SyncRequests ==
    FirstId(Naming(AddressRequests \cup SyncedRequests \cup UnloadWalletRequests, {"w1"})
              \cup {r \in Naming(LoadWalletRequests, {"w1"}) :
                      r.params.descriptor = "elwpkh(A)#c1"})

NextSync ==
    \E w \in Workers :
        \/ Receive(w, SyncRequests)
        \/ Deserialize(w)
        \/ Acquire(w)
        \/ LoadWallet(w)
        \/ UnloadWallet(w)
        \/ SyncTxs(w)
        \/ Query(w)
        \/ Release(w)
        \/ Reply(w)

SpecSync == Init /\ [][NextSync]_vars

\* The methods that take no lock, beside loads that fill both registries and
\* keep the lock busy.
LockFreeRequests ==
    FirstId(VersionRequests \cup ReqOf("generate_signer", Absent) \cup SchemaRequests
              \cup {r \in MultisigDescriptorRequests :
                      r.params.threshold = 2 /\ r.params.descriptor_blinding_key = "slip77"}
              \cup ContractRequests
              \cup BadParamRequests({"schema", "multisig_descriptor", "contract"})
              \cup {r \in Naming(LoadWalletRequests, {"w1"}) :
                      r.params.descriptor = "elwpkh(A)#c1"}
              \cup {r \in Naming(LoadableSignerRequests, {"s1"}) : r.params.kind = "software"})

NextLockFree ==
    \E w \in Workers :
        \/ Receive(w, LockFreeRequests)
        \/ Schema(w)
        \/ GenerateSigner(w)
        \/ Version(w)
        \/ MultisigDescriptor(w)
        \/ Contract(w)
        \/ Deserialize(w)
        \/ Acquire(w)
        \/ LoadWallet(w)
        \/ LoadSigner(w)
        \/ Release(w)
        \/ Reply(w)

SpecLockFree == Init /\ [][NextLockFree]_vars

\* Every method that takes the lock, on one wallet name and one signer name.
WalletCombineRequests ==
    UNION {ReqOf("wallet_combine", [shape |-> "ok", name |-> n, pset |-> l]) :
             n \in WalletNames, l \in PsetLists}

AssetDetailsRequests ==
    UNION {ReqOf("asset_details", [shape |-> "ok", asset_id |-> a]) : a \in AssetIdTexts}

FrameRequests ==
    FirstId({r \in Naming(LoadWalletRequests, {"w1"}) : r.params.descriptor = "elwpkh(A)#c1"}
              \cup Naming(UnloadWalletRequests, {"w1"})
              \cup {r \in Naming(LoadableSignerRequests, {"s1"}) : r.params.kind = "software"}
              \cup Naming(UnloadSignerRequests, {"s1"})
              \cup ListWalletsRequests \cup ListSignersRequests
              \cup {r \in Naming(AddressRequests, {"w1"}) : r.params.index = {}}
              \cup Naming(SyncedRequests, {"w1"})
              \cup {r \in Naming(SinglesigDescriptorRequests, {"s1"}) :
                      r.params.descriptor_blinding_key = "slip77"}
              \cup {r \in Naming(XpubRequests, {"s1"}) : r.params.xpub_kind = "bip84"}
              \cup {r \in Naming(SignRequests, {"s1"}) : r.params.pset = "pset(tx1)"}
              \cup {r \in Naming(BroadcastRequests, {"w1"}) :
                      r.params.pset = "pset(tx1,sig)" /\ ~r.params.dry_run}
              \cup Naming(WalletDetailsRequests, {"w1"})
              \cup {r \in Naming(WalletPsetDetailsRequests, {"w1"}) : r.params.pset = "pset(tx1)"}
              \cup {r \in Naming(WalletCombineRequests, {"w1"}) : Len(r.params.pset) = 2}
              \cup AssetDetailsRequests)

NextFrame ==
    \E w \in Workers :
        \/ Receive(w, FrameRequests)
        \/ Deserialize(w)
        \/ Acquire(w)
        \/ AcquirePoisoned(w)
        \/ LoadWallet(w)
        \/ UnloadWallet(w)
        \/ ListWallets(w)
        \/ LoadSigner(w)
        \/ UnloadSigner(w)
        \/ ListSigners(w)
        \/ SyncTxs(w)
        \/ Query(w)
        \/ SinglesigDescriptor(w)
        \/ Xpub(w)
        \/ Sign(w)
        \/ Broadcast(w)
        \/ WalletDetails(w)
        \/ WalletCombine(w)
        \/ WalletPsetDetails(w)
        \/ AssetDetails(w)
        \/ Release(w)
        \/ Reply(w)

SpecFrame == Init /\ [][NextFrame]_vars

\* Requests that can poison the lock, beside requests of methods that take
\* the lock, with and without usable parameters, and of methods that do not.
PoisonRequests ==
    FirstId({r \in Naming(LoadableSignerRequests, {"s1"}) : r.params.kind \in {"software", "serial"}}
              \cup {r \in Naming(SinglesigDescriptorRequests, {"s1"}) :
                      r.params.singlesig_kind = "wpkh"
                        /\ r.params.descriptor_blinding_key = "slip77"}
              \cup {r \in Naming(LoadWalletRequests, {"w1"}) :
                      r.params.descriptor = "elwpkh(A)#c1"}
              \cup ListWalletsRequests
              \cup BadParamRequests({"load_wallet", "sign"})
              \cup VersionRequests \cup ReqOf("generate_signer", Absent)
              \cup {r \in SchemaRequests \cup ContractRequests : r.params.shape = "ok"}
              \cup {r \in MultisigDescriptorRequests :
                      r.params.threshold = 2 /\ r.params.descriptor_blinding_key = "slip77"}
              \cup StopRequests \cup UnknownRequests)

NextPoison ==
    \E w \in Workers :
        \/ Receive(w, PoisonRequests)
        \/ Unimplemented(w)
        \/ Schema(w)
        \/ GenerateSigner(w)
        \/ Version(w)
        \/ MultisigDescriptor(w)
        \/ Contract(w)
        \/ Stop(w)
        \/ Deserialize(w)
        \/ Acquire(w)
        \/ AcquirePoisoned(w)
        \/ LoadWallet(w)
        \/ ListWallets(w)
        \/ LoadSigner(w)
        \/ SinglesigDescriptor(w)
        \/ Release(w)
        \/ Reply(w)

SpecPoison == Init /\ [][NextPoison]_vars

\* ================================================================= claims
\* Worker w runs the body of method m in this step, under the lock.
Handles(w, m) ==
    /\ pc[w] = "locked"
    /\ pc'[w] = "unlocking"
    /\ req[w].method = m

\* Worker w has just run the body of method m and still holds the lock.
Handled(w, m) ==
    /\ pc[w] = "unlocking"
    /\ req[w].method = m

\* ------------------------------------------------------------------- C1
\* C1, as stated: a LoadWallet under a name that is loaded fails with
\* NameAlreadyExists, whatever the descriptor, and leaves the wallet registry
\* unchanged.
C1_ReloadIsConflict ==
    [][\A w \in Workers :
         Handles(w, "load_wallet") /\ RegHas(wollets, req[w].params.name)
           => /\ resp'[w].kind = "error"
              /\ resp'[w].code = "NameAlreadyExists"
              /\ wollets' = wollets]_vars

\* C1, amended: a LoadWallet under a name that is loaded fails and leaves the
\* wallet registry unchanged; it fails with NameAlreadyExists when the wallet
\* engine built a wallet from the descriptor, and with the engine's error,
\* before the registry is asked, when it did not (always so for a descriptor
\* the engine cannot parse).
C1_ReloadFails ==
    [][\A w \in Workers :
         Handles(w, "load_wallet") /\ RegHas(wollets, req[w].params.name)
           => /\ resp'[w].kind = "error"
              /\ \/ /\ resp'[w].code = "NameAlreadyExists"
                    /\ resp'[w].calls = <<"Wollet::new", "insert">>
                    /\ ParseDescriptor(req[w].params.descriptor).ok
                 \/ /\ resp'[w].code = "Wollet"
                    /\ resp'[w].calls = <<"Wollet::new">>
              /\ wollets' = wollets
              /\ walletOps' = walletOps]_vars

\* A load of another descriptor under a loaded name was refused as a conflict,
\* and the entry still holds the first descriptor.
C1_Witness ==
    \E w \in Workers :
        /\ Handled(w, "load_wallet")
        /\ resp[w].code = "NameAlreadyExists"
        /\ RegHas(wollets, req[w].params.name)
        /\ DescriptorToString(RegGet(wollets, req[w].params.name))
             # ParseDescriptor(req[w].params.descriptor).descriptor
        /\ Cardinality(wollets) = 2

\* ------------------------------------------------------------------- C2
\* C2: an UnloadWallet of a name that is not loaded fails with NameNotFound,
\* and ListWallets answers after it what it answered before it.
C2_UnloadMissingFails ==
    [][\A w \in Workers :
         Handles(w, "unload_wallet") /\ ~RegHas(wollets, req[w].params.name)
           => /\ resp'[w].kind = "error"
              /\ resp'[w].code = "NameNotFound"
              /\ ListedWallets(wollets') = ListedWallets(wollets)]_vars

\* An unload of a name that is not loaded was refused while another wallet is
\* loaded.
C2_Witness ==
    \E w \in Workers :
        /\ Handled(w, "unload_wallet")
        /\ resp[w].code = "NameNotFound"
        /\ ~RegHas(wollets, req[w].params.name)
        /\ wollets # {}

\* ------------------------------------------------------------------- C3
\* What the round trip of descriptor text d under name n lists.
RoundTripEntry(n, d) == [name |-> n, descriptor |-> d]

\* The round trip with every descriptor reported as loaded: the text the
\* caller sent (verbatim), or the text the engine prints (printed).
RoundTrip(verbatim) ==
    \A w \in Workers :
        /\ Handles(w, "load_wallet") /\ wollets = {} /\ resp'[w].kind = "result"
             => ListedWallets(wollets')
                  = {RoundTripEntry(req[w].params.name,
                                    IF verbatim
                                    THEN req[w].params.descriptor
                                    ELSE ParseDescriptor(req[w].params.descriptor).descriptor)}
        /\ Handles(w, "list_wallets") => resp'[w].data = ListedWallets(wollets)
        /\ Handles(w, "unload_wallet") /\ resp'[w].kind = "result"
             /\ RegNames(wollets) = {req[w].params.name}
             => /\ resp'[w].data
                     = RoundTripEntry(req[w].params.name,
                                      IF verbatim
                                      THEN walletOps[req[w].params.name].arg
                                      ELSE ParseDescriptor(walletOps[req[w].params.name].arg).descriptor)
                /\ ListedWallets(wollets') = {}

UniqueNames(reg) == \A e1, e2 \in reg : e1.name = e2.name => e1 = e2

\* C4: in each registry a name maps to at most one entry, and a name is
\* present exactly when the last successful load or unload of it was a load.
C4_RegistryFollowsOps ==
    /\ UniqueNames(wollets)
    /\ UniqueNames(signers)
    /\ \A n \in WalletNames : RegHas(wollets, n) <=> walletOps[n].op = "load"
    /\ \A n \in SignerNames : RegHas(signers, n) <=> signerOps[n].op = "load"

\* ------------------------------------------------------------------- C5
\* Worker w is inside inner_method_handler.
InHandler(w) == pc[w] \in {"called", "wantlock", "locked", "synced", "unlocking"}

\* C5, as stated: no two handlers run concurrently: while a handler holds the
\* session lock no other worker's handler takes a step.
C5_FullySerialized ==
    [][\A w \in Workers :
         pc[w] \in {"locked", "synced", "unlocking"}
           => \A v \in Workers \ {w} : InHandler(v) => pc'[v] = pc[v]]_vars

\* The lock is held by at most one worker, and by exactly the workers between
\* state.lock() and the end of their arm.
LockDiscipline ==
    /\ Cardinality(holders) <= 1
    /\ \A w \in Workers : pc[w] \in {"locked", "synced", "unlocking"} <=> w \in holders

\* A registry changes only in the step of a handler body run by a worker that
\* holds the lock before and after the step.
StateChangesUnderLock ==
    (wollets' # wollets \/ signers' # signers)
      => \E w \in holders \cap holders' : pc[w] = "locked" /\ pc'[w] = "unlocking"

\* C5, amended: requests are serialized with respect to shared state only: at
\* most one handler holds the session lock, a handler holds it from after its
\* parameters are deserialized until its arm ends, and every read or write of
\* the registries is made by the handler holding it; outside the lock (method
\* parsing, parameter deserialization, the methods that take no lock)
\* handlers do run concurrently.
C5_LockSerializesState == []LockDiscipline /\ [][StateChangesUnderLock]_vars

\* One handler has changed a registry under the lock while another is blocked
\* in state.lock().
C5_Witness ==
    \E w, v \in Workers :
        /\ w # v
        /\ holders = {w}
        /\ pc[w] = "unlocking"
        /\ resp[w].kind = "result"
        /\ pc[v] = "wantlock"
        /\ wollets # {}
        /\ signers # {}

\* ------------------------------------------------------------------- C6
\* C6: once a request has completed, whichever way its handler ended, the
\* handler has released the lock and a later request can acquire it.
C6_LockUsableAfterRequest ==
    \A w \in Workers : pc[w] = "done" => w \notin holders /\ ~poisoned

\* ------------------------------------------------------------------- C7
\* C7: a request whose parameters are absent or malformed never makes the
\* handler panic, and a method that reads its parameters answers it with an
\* error.
C7_BadParamsAnswered ==
    \A w \in Workers :
        pc[w] = "done" /\ req[w].method \in Methods
          /\ req[w].params.shape \in {"absent", "malformed"}
          => /\ resp[w].kind # "panic"
             /\ ParamsPolicy(req[w].method) # "ignored" => resp[w].kind = "error"

\* ------------------------------------------------------------------- C8
\* C8: a request for a method outside the method set is answered
\* "unimplemented" with that name and the request's id, without the lock and
\* without a change to a registry, and answering it does not stop the server.
C8_UnknownMethodUnimplemented ==
    [][\A w \in Workers :
         /\ pc[w] = "called" /\ req[w].method \notin Methods /\ pc'[w] # pc[w]
              => /\ pc'[w] = "done"
                 /\ resp'[w].kind = "unimplemented"
                 /\ resp'[w].data = req[w].method
                 /\ resp'[w].id = req[w].id
                 /\ w \notin holders'
                 /\ UNCHANGED <<holders, poisoned, wollets, signers, running>>
         /\ pc[w] = "done" /\ resp[w].kind = "unimplemented" /\ pc'[w] # pc[w]
              => /\ pc'[w] = "idle"
                 /\ UNCHANGED <<holders, poisoned, wollets, signers, running>>]_vars

\* An unknown method was answered with the second id while a wallet is loaded
\* and the server is running.
C8_Witness ==
    \E w \in Workers :
        /\ pc[w] = "done"
        /\ resp[w].kind = "unimplemented"
        /\ resp[w].data = "frobnicate"
        /\ resp[w].id = 2
        /\ wollets # {}
        /\ running

\* ------------------------------------------------------------------- C9
\* The request of worker w names an external signer.
OnExternalSigner(w) ==
    /\ RegHas(signers, req[w].params.name)
    /\ RegGet(signers, req[w].params.name).variant = "external"

\* C9: Sign, Xpub and SinglesigDescriptor on an external signer end with an
\* error right after the signer was looked up: nothing is parsed, derived or
\* signed, no PSET is returned, and the request and the signer registry are
\* as before.
C9_ExternalSignerRefused ==
    [][\A w \in Workers : \A m \in {"sign", "xpub", "singlesig_descriptor"} :
         Handles(w, m) /\ OnExternalSigner(w)
           => /\ resp'[w].kind = "error"
              /\ resp'[w].calls = <<"get_available">>
              /\ signers' = signers
              /\ req'[w] = req[w]]_vars

\* A Sign of a well-formed PSET on an external signer was refused.
C9_Witness ==
    \E w \in Workers :
        /\ Handled(w, "sign")
        /\ OnExternalSigner(w)
        /\ req[w].params.pset = "pset(tx1)"
        /\ resp[w].kind = "error"

\* ------------------------------------------------------------------ C10
\* How often the handler called the engine's broadcast.
BroadcastCalls(calls) == Cardinality({i \in DOMAIN calls : calls[i] = "broadcast"})

\* C10: for a loaded wallet and a PSET that finalizes, Broadcast with dry_run
\* answers the id of the finalized transaction without calling the engine's
\* broadcast; without dry_run it calls broadcast once, after finalize, and
\* answers the same id, or the engine's error when broadcast fails.
C10_BroadcastDryRun ==
    [][\A w \in Workers :
         Handles(w, "broadcast") /\ RegHas(wollets, req[w].params.name)
           /\ ParsePset(req[w].params.pset).ok
           /\ Finalize(RegGet(wollets, req[w].params.name),
                       ParsePset(req[w].params.pset).pset).ok
           => LET tx == Finalize(RegGet(wollets, req[w].params.name),
                                 ParsePset(req[w].params.pset).pset).tx
                  calls == resp'[w].calls
              IN  /\ wollets' = wollets
                  /\ resp'[w].kind = "result" => resp'[w].data.txid = Txid(tx)
                  /\ IF req[w].params.dry_run
                     THEN resp'[w].kind = "result" /\ BroadcastCalls(calls) = 0
                     ELSE /\ BroadcastCalls(calls) = 1
                          /\ calls[Len(calls)] = "broadcast"
                          /\ calls[Len(calls) - 1] = "finalize"
                          /\ resp'[w].kind \in {"result", "error"}
                          /\ resp'[w].kind = "error" => resp'[w].code = "Wollet"]_vars

\* A dry run answered a transaction id without a call to broadcast.
C10_Witness ==
    \E w \in Workers :
        /\ Handled(w, "broadcast")
        /\ req[w].params.dry_run
        /\ resp[w].kind = "result"
        /\ resp[w].data.txid = Txid("tx2")
        /\ BroadcastCalls(resp[w].calls) = 0

\* ------------------------------------------------------------------ C11
\* How often x occurs in a sequence.
Count(seq, x) == Cardinality({i \in DOMAIN seq : seq[i] = x})

\* Two signers are registered under different names with one fingerprint.
SharedFingerprint ==
    \E e1, e2 \in signers : e1.name # e2.name /\ e1.entity.fingerprint = e2.entity.fingerprint

\* The wallet named by worker w's request.
NamedWollet(w) == RegGet(wollets, req[w].params.name)

\* The wallet's own fingerprint list names a fingerprint twice.
RepeatsFingerprint(wollet) ==
    \E i, j \in DOMAIN WolletSigners(wollet) :
        i < j /\ WolletSigners(wollet)[i] = WolletSigners(wollet)[j]

\* C11, as stated: with two signers of one fingerprint registered under
\* different names, a WalletDetails call raises the duplicate-fingerprints
\* warning exactly once.
C11_OncePerSharedFingerprint ==
    [][\A w \in Workers :
         Handles(w, "wallet_details") /\ RegHas(wollets, req[w].params.name)
           /\ SharedFingerprint
           => /\ resp'[w].kind = "result"
              /\ resp'[w].data.warnings = Join(WalletDetailsWarnings(NamedWollet(w), signers))
              /\ Count(WalletDetailsWarnings(NamedWollet(w), signers), DuplicateWarning) = 1]_vars

\* C11, amended: the duplicate-fingerprints warning of WalletDetails follows
\* the wallet's own fingerprint list and not the signer registry: it is
\* raised once, as the first warning, when wollet.signers() names a
\* fingerprint more than once, however often, and not at all otherwise.
C11_OncePerRepeatingWallet ==
    [][\A w \in Workers :
         Handles(w, "wallet_details") /\ RegHas(wollets, req[w].params.name)
           => LET ws == WalletDetailsWarnings(NamedWollet(w), signers)
              IN  /\ resp'[w].kind = "result"
                  /\ resp'[w].data.warnings = Join(ws)
                  /\ IF RepeatsFingerprint(NamedWollet(w))
                     THEN Count(ws, DuplicateWarning) = 1 /\ ws[1] = DuplicateWarning
                     ELSE Count(ws, DuplicateWarning) = 0]_vars

\* WalletDetails has answered for a wallet of distinct fingerprints while two
\* signers share a fingerprint: no duplicate-fingerprints warning.
C11_Witness ==
    \E w \in Workers :
        /\ Handled(w, "wallet_details")
        /\ RegHas(wollets, req[w].params.name)
        /\ SharedFingerprint
        /\ ~RepeatsFingerprint(NamedWollet(w))
        /\ resp[w].kind = "result"
        /\ Count(WalletDetailsWarnings(NamedWollet(w), signers), DuplicateWarning) = 0

\* ------------------------------------------------------------------ C12
\* The names of the signers registered with a fingerprint.
NamesOf(fingerprint) ==
    {e.name : e \in {x \in signers : x.entity.fingerprint = fingerprint}}

\* C12: WalletDetails lists one signer entry per wallet fingerprint, in order;
\* a fingerprint that only the external signer s answers to is reported under
\* the name s without a warning about it; a fingerprint no signer answers to
\* is reported under the placeholder with a non-empty warnings string; with
\* every fingerprint resolved and none repeated the warnings are empty.
C12_ResolvesNames ==
    [][\A w \in Workers :
         Handles(w, "wallet_details") /\ RegHas(wollets, req[w].params.name)
           => LET fps == WolletSigners(NamedWollet(w))
                  d == resp'[w].data
              IN  /\ resp'[w].kind = "result"
                  /\ Len(d.signers) = Len(fps)
                  /\ \A i \in DOMAIN fps :
                       /\ d.signers[i].fingerprint = fps[i]
                       /\ NamesOf(fps[i]) = {} =>
                            d.signers[i].name = Placeholder /\ d.warnings # ""
                       /\ \A e \in signers :
                            e.entity.variant = "external" /\ NamesOf(fps[i]) = {e.name}
                              => /\ d.signers[i].name = e.name
                                 /\ \A k \in DOMAIN WalletDetailsWarnings(NamedWollet(w), signers) :
                                      WalletDetailsWarnings(NamedWollet(w), signers)[k]
                                        \notin {"unknown fingerprint " \o fps[i],
                                                "multiple signers with fingerprint " \o fps[i]}
                  /\ (~RepeatsFingerprint(NamedWollet(w))
                        /\ \A i \in DOMAIN fps : Cardinality(NamesOf(fps[i])) = 1)
                       => d.warnings = ""]_vars

\* WalletDetails has reported the external signer s2 for one fingerprint and
\* the placeholder, with a warning, for another.
C12_Witness ==
    \E w \in Workers :
        /\ Handled(w, "wallet_details")
        /\ resp[w].kind = "result"
        /\ RegHas(signers, "s2")
        /\ RegGet(signers, "s2").variant = "external"
        /\ Len(resp[w].data.signers) = 2
        /\ resp[w].data.signers[1].name = "s2"
        /\ resp[w].data.signers[2].name = Placeholder
        /\ resp[w].data.warnings # ""

\* ------------------------------------------------------------------ C19
\* The warnings a lookup of one of the fingerprints can add.
ResolutionWarnings(fingerprints) ==
    UNION {{"unknown fingerprint " \o fingerprints[i],
            "multiple signers with fingerprint " \o fingerprints[i]} :
             i \in DOMAIN fingerprints}

\* C19: the warnings of a WalletDetails / WalletPsetDetails response are those
\* of this call alone, a function of the wallet, the signer registry and the
\* PSET at the time of the call; those of WalletPsetDetails are added by the
\* lookups of the wallet's fingerprints only, at most one per fingerprint,
\* and never hold the duplicate-fingerprints warning of WalletDetails.
C19_WarningsPerRequest ==
    [][\A w \in Workers :
         /\ Handles(w, "wallet_details") /\ RegHas(wollets, req[w].params.name)
              => resp'[w].data.warnings = Join(WalletDetailsWarnings(NamedWollet(w), signers))
         /\ Handles(w, "wallet_pset_details") /\ resp'[w].kind = "result"
              => LET fps == WolletSigners(NamedWollet(w))
                     ws == WalletPsetDetailsWarnings(NamedWollet(w), signers,
                                                     ParsePset(req[w].params.pset).pset)
                 IN  /\ resp'[w].data.warnings = Join(ws)
                     /\ Count(ws, DuplicateWarning) = 0
                     /\ Len(ws) <= Len(fps)
                     /\ \A k \in DOMAIN ws : ws[k] \in ResolutionWarnings(fps)
                     /\ Len(resp'[w].data.has_signatures_from)
                          + Len(resp'[w].data.missing_signatures_from) = Len(fps)]_vars

\* WalletPsetDetails has answered with warnings for a wallet whose own
\* fingerprints repeat.
C19_Witness ==
    \E w \in Workers :
        /\ Handled(w, "wallet_pset_details")
        /\ resp[w].kind = "result"
        /\ RepeatsFingerprint(NamedWollet(w))
        /\ resp[w].data.warnings # ""
        /\ signers # {}

\* ------------------------------------------------------------------ C20
\* The wallet type the claim gives each descriptor.
ClassOf(descriptor) ==
    CASE descriptor = "elwpkh(A)#c1" -> "wpkh"
      [] descriptor = "elsh(wpkh(C))#c3" -> "sh_wpkh"
      [] descriptor = "elwsh(multi(2,A,B))#c2" -> "wsh_multi_2of2"
      [] descriptor = "elwsh(multi(2,A/0,A/1,B))#c4" -> "wsh_multi_2of3"
      [] OTHER -> "unknown"

\* C20: WalletDetails answers every loaded wallet with the class of its
\* descriptor: wpkh, sh-wpkh, multisig(threshold, number of keys) for a
\* witness-script-hash of a multi node, unknown for everything else; the
\* class depends on the descriptor alone and unknown is not an error.
C20_ClassifiesDescriptor ==
    [][\A w \in Workers :
         Handles(w, "wallet_details") /\ RegHas(wollets, req[w].params.name)
           => /\ resp'[w].kind = "result"
              /\ resp'[w].data.type_ = ClassOf(NamedWollet(w).descriptor)]_vars

\* WalletDetails has classified a sortedmulti witness-script-hash wallet as
\* unknown, in a result.
C20_Witness ==
    \E w \in Workers :
        /\ Handled(w, "wallet_details")
        /\ RegHas(wollets, req[w].params.name)
        /\ NamedWollet(w).descriptor = "elwsh(sortedmulti(2,A,B))#c6"
        /\ resp[w].kind = "result"
        /\ resp[w].data.type_ = "unknown"

\* ------------------------------------------------------------------ C13
\* A reported signer carries what its variant allows: an external signer its
\* fingerprint alone, an available one an identifier and an extended public
\* key as well.
ReportsVariant(reported, entity) ==
    /\ reported.fingerprint = entity.fingerprint
    /\ IF entity.variant = "external"
       THEN reported.id = {} /\ reported.xpub = {}
       ELSE reported.id # {} /\ reported.xpub # {}

\* Every entry is of the variant of the kind it was loaded with.
VariantFollowsKind ==
    \A e \in signers :
        /\ signerOps[e.name].op = "load"
        /\ signerOps[e.name].arg \in {"software", "serial", "external"}
        /\ e.entity.variant = "external" <=> signerOps[e.name].arg = "external"
        /\ e.entity.variant \in {"external", "available"}

\* The responses of LoadSigner, UnloadSigner and ListSigners report each
\* signer by its variant, and an entry stays as it is while it is registered.
ReportsFollowVariant ==
    \A w \in Workers :
        /\ Handles(w, "load_signer") /\ resp'[w].kind = "result"
             => /\ ReportsVariant(resp'[w].data, RegGet(signers', req[w].params.name))
                /\ resp'[w].data.name = req[w].params.name
                /\ resp'[w].data.id = {} <=> req[w].params.kind = "external"
        /\ Handles(w, "unload_signer") /\ resp'[w].kind = "result"
             => /\ ReportsVariant(resp'[w].data, RegGet(signers, req[w].params.name))
                /\ resp'[w].data.name = req[w].params.name
        /\ Handles(w, "list_signers") /\ resp'[w].kind = "result"
             => /\ {d.name : d \in resp'[w].data} = RegNames(signers)
                /\ \A d \in resp'[w].data : ReportsVariant(d, RegGet(signers, d.name))
        /\ \A n \in SignerNames :
             RegHas(signers, n) /\ RegHas(signers', n)
               => RegGet(signers', n) = RegGet(signers, n)

\* C13: in every reachable state an entry loaded as external is of the
\* external variant and one loaded as software or serial is available; every
\* response that reports a signer gives an external one its fingerprint alone
\* and an available one its identifier and extended public key too; an entry
\* does not change between its load and its unload.
C13_VariantIsStable == []VariantFollowsKind /\ [][ReportsFollowVariant]_vars

\* ListSigners has reported an external and a software signer side by side.
C13_Witness ==
    \E w \in Workers :
        /\ Handled(w, "list_signers")
        /\ resp[w].kind = "result"
        /\ \E d1, d2 \in resp[w].data :
             /\ d1.id = {} /\ d1.xpub = {}
             /\ d2.id # {} /\ d2.xpub # {}
        /\ \E e \in signers : e.entity.variant = "external"

\* ------------------------------------------------------------------ C14
\* The kind is one of the three and the field it needs is there and parses.
PassesValidation(params) ==
    /\ params.kind \in {"software", "serial", "external"}
    /\ params.kind = "software" => params.mnemonic # {}
    /\ params.kind = "external" => params.fingerprint \in {{"aaaaaaaa"}, {"bbbbbbbb"}}

\* The signer of the request can be built without the hardware device.
BuildsWithoutDevice(params) ==
    \/ params.kind = "software" /\ params.mnemonic = {"abandon abandon about"}
    \/ params.kind = "external" /\ params.fingerprint \in {{"aaaaaaaa"}, {"bbbbbbbb"}}

\* C14, as stated: a LoadSigner that passes validation, under a registered
\* name, fails with NameAlreadyExists and leaves the signer registry unchanged.
C14_RegisteredNameConflicts ==
    [][\A w \in Workers :
         Handles(w, "load_signer") /\ RegHas(signers, req[w].params.name)
           /\ PassesValidation(req[w].params)
           => /\ resp'[w].kind = "error"
              /\ resp'[w].code = "NameAlreadyExists"
              /\ signers' = signers]_vars

\* C14, amended: a LoadSigner that fails validation (a kind outside the three,
\* software without mnemonic, external without or with an unparsable
\* fingerprint) is an error and leaves the registry unchanged; so does every
\* LoadSigner that does not end in a result; a result adds one entry under a
\* name that was free and changes no other; under a registered name the call
\* never succeeds, and it is NameAlreadyExists when the signer can be built:
\* validation, a mnemonic the engine rejects and the hardware device (its
\* error, or the panic of a failed unlock) come before the name is looked up.
C14_LoadSignerValidates ==
    [][\A w \in Workers :
         Handles(w, "load_signer")
           => LET p == req[w].params
                  r == resp'[w]
              IN  /\ r.kind \in {"result", "error", "panic"}
                  /\ r.kind # "result" => signers' = signers
                  /\ ~PassesValidation(p) => r.kind = "error" /\ r.code = "Generic"
                  /\ r.kind = "result"
                       => /\ ~RegHas(signers, p.name)
                          /\ RegHas(signers', p.name)
                          /\ signers \subseteq signers'
                          /\ Cardinality(signers') = Cardinality(signers) + 1
                  /\ RegHas(signers, p.name)
                       => /\ r.kind # "result"
                          /\ BuildsWithoutDevice(p)
                               => r.kind = "error" /\ r.code = "NameAlreadyExists"
                          /\ PassesValidation(p) /\ ~BuildsWithoutDevice(p)
                               => \/ r.kind = "panic"
                                  \/ r.kind = "error"
                                       /\ r.code \in {"Signer", "Jade", "NameAlreadyExists"}]_vars

\* An external signer was refused under the name of a registered software
\* signer.
C14_Witness ==
    \E w \in Workers :
        /\ Handled(w, "load_signer")
        /\ req[w].params.kind = "external"
        /\ RegHas(signers, req[w].params.name)
        /\ RegGet(signers, req[w].params.name).kind = "software"
        /\ resp[w].kind = "error"
        /\ resp[w].code = "NameAlreadyExists"

\* ------------------------------------------------------------------ C15
\* The owner of the App returns from call in this step.
AppReturns(call) == app' # app /\ app'.call = call /\ app'.result # "pending"

\* Everything but the record of the App's last call is as before.
ServerUntouched ==
    /\ UNCHANGED <<pc, req, resp, holders, poisoned, wollets, signers, running,
                   walletOps, signerOps>>
    /\ app'.rpc = app.rpc
    /\ app'.runs = app.runs
    /\ app'.at = app.at

\* Run on a started App, and stop, is_running and join_threads on one that is
\* not started, are errors that change nothing; stop on a started App
\* succeeds, and so does a join_threads that returns.
LifecycleStep ==
    /\ AppReturns("run") /\ app.rpc
         => app'.result = "AlreadyStarted" /\ ServerUntouched
    /\ AppReturns("run") /\ app'.result = "Ok"
         => ~app.rpc /\ app'.rpc /\ app'.runs = app.runs + 1
    /\ \A call \in {"stop", "is_running"} :
         AppReturns(call)
           => IF app.rpc
              THEN app'.result \notin {"NotStarted", "AlreadyStarted"}
              ELSE app'.result = "NotStarted" /\ ServerUntouched
    /\ AppReturns("join_threads") /\ app.at = "ready"
         => ~app.rpc /\ app'.result = "NotStarted" /\ ServerUntouched
    /\ AppReturns("join_threads") /\ app.at = "joining"
         => app'.result = "Ok" /\ ~app'.rpc
    /\ app.rpc /\ app.at = "ready" /\ app'.at = "joining"
         => app'.call = "join_threads" /\ ~app'.rpc

\* A session state is installed only by a run that returns Ok, and the
\* server runs only while App::rpc is Some or join_threads waits for it.
OneSessionPerRun ==
    /\ app.runs <= MaxRuns
    /\ running => app.rpc \/ app.at = "joining"
    /\ app.runs = 0 => ~app.rpc /\ ~running /\ wollets = {} /\ signers = {}

\* C15: the lifecycle errors are values: run on a started App fails with
\* AlreadyStarted and installs no second session state; stop, is_running and
\* join_threads on an App that is not started fail with NotStarted and change
\* nothing; run, then stop, then join_threads succeed.
C15_LifecycleErrors == []OneSessionPerRun /\ [][LifecycleStep]_vars

\* A second run was refused while a wallet is loaded in the running server.
C15_Witness ==
    /\ app.call = "run"
    /\ app.result = "AlreadyStarted"
    /\ app.rpc
    /\ running
    /\ wollets # {}

\* ------------------------------------------------------------------ C16
\* The moves of a worker through method_handler.
WorkerMoves ==
    {<<"idle", "called">>, <<"called", "wantlock">>, <<"called", "done">>,
     <<"wantlock", "locked">>, <<"wantlock", "done">>, <<"locked", "unlocking">>,
     <<"locked", "synced">>, <<"synced", "unlocking">>,
     <<"unlocking", "done">>, <<"done", "idle">>}

\* The Stop arm answers with the sentinel and touches nothing; the server
\* stops in the step that completes the answer to a Stop, and in no other; a
\* worker goes through its request step by step, whether or not the server
\* has been stopped meanwhile, and is handed no request once it has.
StopStep ==
    /\ \A w \in Workers :
         pc[w] = "called" /\ req[w].method = "stop" /\ pc'[w] # pc[w]
           => /\ pc'[w] = "done"
              /\ resp'[w].kind = "stop"
              /\ resp'[w].data = ""
              /\ UNCHANGED <<wollets, signers, holders, poisoned, running>>
    /\ running /\ ~running'
         => \E w \in Workers :
                pc[w] = "done" /\ resp[w].kind = "stop" /\ pc'[w] = "idle"
    /\ \A w \in Workers :
         /\ pc'[w] # pc[w] => <<pc[w], pc'[w]>> \in WorkerMoves
         /\ pc[w] = "idle" /\ pc'[w] # "idle" => running
         /\ pc[w] # "idle" /\ pc'[w] = pc[w] => req'[w] = req[w] /\ resp'[w] = resp[w]

\* C16: Stop is not preemptive: its handler yields the stop sentinel and no
\* result, changes no registry and does not stop the server; the server stops
\* when the response to the Stop has been completed; every request dispatched
\* before that is handled to its end.
C16_StopNotPreemptive ==
    /\ [][StopStep]_vars
    /\ \A w \in Workers : (~running /\ pc[w] # "idle") ~> (pc[w] = "idle")

\* A LoadWallet dispatched before the shutdown has inserted its wallet after
\* the server was stopped.
C16_Witness ==
    \E w \in Workers :
        /\ ~running
        /\ Handled(w, "load_wallet")
        /\ resp[w].kind = "result"
        /\ RegHas(wollets, req[w].params.name)

\* ------------------------------------------------------------------ C17
\* Worker w holds the lock between the synchronization and the query.
BetweenSyncAndQuery(w) == pc[w] = "synced"

\* Worker v is, in this state, past state.lock() and not yet past the end of
\* its arm.
UnderLock(v) == pc[v] \in {"locked", "synced", "unlocking"}

\* C17: Address, Balance, SendMany and Issue, holding the lock, resolve the
\* wallet, then synchronize it, then query or build: an unknown name ends the
\* arm before any synchronization, a failed synchronization ends it before
\* the query with the engine's error; between the synchronization and the
\* query of a request no other handler is or gets under the lock and the
\* registries stay as they are.
C17_SyncThenQuery ==
    [][\A w \in Workers :
         /\ pc[w] = "locked" /\ req[w].method \in SyncMethods /\ pc'[w] # pc[w]
              => /\ w \in holders /\ w \in holders'
                 /\ IF RegHas(wollets, req[w].params.name)
                    THEN /\ resp'[w].calls = <<"get_mut", "sync_txs">>
                         /\ \/ pc'[w] = "synced" /\ resp'[w].kind = "none"
                            \/ /\ pc'[w] = "unlocking"
                               /\ resp'[w].kind = "error"
                               /\ resp'[w].code = "Wollet"
                    ELSE /\ pc'[w] = "unlocking"
                         /\ resp'[w].kind = "error"
                         /\ resp'[w].code = "NameNotFound"
                         /\ resp'[w].calls = <<"get_mut">>
         /\ BetweenSyncAndQuery(w) /\ pc'[w] # pc[w]
              => /\ w \in holders /\ w \in holders'
                 /\ pc'[w] = "unlocking"
                 /\ RegHas(wollets, req[w].params.name)
                 /\ resp[w].calls = <<"get_mut", "sync_txs">>
                 /\ resp'[w].calls = <<"get_mut", "sync_txs", QueryCall(req[w].method)>>
                 /\ resp'[w].kind \in {"result", "error"}
                 /\ req[w].method = "address"
                      => \E up \in QueryOutcomes :
                             resp'[w] = AddressHandler(wollets, req[w], up)
         /\ BetweenSyncAndQuery(w)
              => /\ holders = {w}
                 /\ wollets' = wollets /\ signers' = signers
                 /\ \A v \in Workers \ {w} : ~UnderLock(v) /\ ~UnderLock(v)']_vars

\* A request has synchronized its wallet and not yet queried it, while
\* another that would unload the wallet waits for the lock.
C17_Witness ==
    \E w, v \in Workers :
        /\ BetweenSyncAndQuery(w)
        /\ req[w].method = "send_many"
        /\ pc[v] = "wantlock"
        /\ req[v].method = "unload_wallet"
        /\ req[v].params.name = req[w].params.name

\* ------------------------------------------------------------------ C18
LockFreeMethods == {"schema", "generate_signer", "version", "multisig_descriptor", "contract"}

\* The arm of a method that takes no lock, run by worker w.
LockFreeStep(w) ==
    \/ Schema(w)
    \/ GenerateSigner(w)
    \/ Version(w)
    \/ MultisigDescriptor(w)
    \/ Contract(w)

\* A worker on one of the five methods is never at or past state.lock(), and
\* can run its arm whoever holds the lock.
NeverWaits ==
    \A w \in Workers :
        req[w].method \in LockFreeMethods
          => /\ pc[w] \in {"called", "done"}
             /\ w \notin holders
             /\ pc[w] = "called" => ENABLED LockFreeStep(w)

\* The arm ends in one step that leaves the session state and the lock alone;
\* Version answers the one version string.
LeavesStateAlone ==
    \A w \in Workers :
        pc[w] = "called" /\ req[w].method \in LockFreeMethods /\ pc'[w] # pc[w]
          => /\ pc'[w] = "done"
             /\ resp'[w].kind \in {"result", "error", "panic"}
             /\ UNCHANGED <<wollets, signers, holders, poisoned, running, walletOps, signerOps>>
             /\ req[w].method = "version"
                  => resp'[w].kind = "result" /\ resp'[w].data = [version |-> AppVersion]
             /\ req[w].method = "generate_signer"
                  => resp'[w].calls = <<"SwSigner::random">>

\* C18: GenerateSigner, Version, MultisigDescriptor, Contract and Schema,
\* whether they succeed or fail, never take the session lock and never read
\* or change a registry: they complete while another handler holds the
\* lock, the signer GenerateSigner creates is not registered, and Version
\* answers the same version string in every state.
C18_NoRegistryInteraction == []NeverWaits /\ [][LeavesStateAlone]_vars

\* GenerateSigner has answered while another worker holds the lock and a
\* signer is registered.
C18_Witness ==
    \E w, v \in Workers :
        /\ holders = {v}
        /\ pc[v] = "locked"
        /\ req[w].method = "generate_signer"
        /\ pc[w] = "done"
        /\ resp[w].kind = "result"
        /\ signers # {}

\* ------------------------------------------------------------------ C21
\* The wallet names with their descriptors, the signer names with their
\* fingerprints.
WalletMembership == {<<e.name, e.entity.descriptor>> : e \in wollets}

SignerMembership == {<<e.name, e.entity.fingerprint>> : e \in signers}

WalletRegistryMethods == {"load_wallet", "unload_wallet"}

SignerRegistryMethods == {"load_signer", "unload_signer"}

\* Worker w runs a part of the arm of one of the methods, under the lock.
RunsArm(w, methods) ==
    pc[w] \in {"locked", "synced"} /\ req[w].method \in methods /\ pc'[w] # pc[w]

\* C21: only LoadWallet and UnloadWallet change which wallet names are
\* registered with which descriptors, and only LoadSigner and UnloadSigner
\* which signer names with which fingerprints; the arm of every other method
\* that takes the lock, whether it answers a result, an error or panics,
\* leaves both unchanged; a wallet operation leaves the signer registry as it
\* is and a signer operation the wallet registry.
C21_OnlyLoadsChangeMembership ==
    [][/\ WalletMembership' # WalletMembership
            => \E w \in Workers : RunsArm(w, WalletRegistryMethods)
       /\ SignerMembership' # SignerMembership
            => \E w \in Workers : RunsArm(w, SignerRegistryMethods)
       /\ \A w \in Workers :
            /\ RunsArm(w, LockMethods \ (WalletRegistryMethods \cup SignerRegistryMethods))
                 => /\ WalletMembership' = WalletMembership
                    /\ SignerMembership' = SignerMembership
                    /\ signers' = signers
            /\ RunsArm(w, WalletRegistryMethods) => signers' = signers
            /\ RunsArm(w, SignerRegistryMethods) => wollets' = wollets]_vars

\* SendMany has answered on a wallet it synchronized: the registry entry
\* changed, its name and descriptor did not, and a signer is registered.
C21_Witness ==
    \E w \in Workers :
        /\ pc[w] = "unlocking"
        /\ req[w].method = "send_many"
        /\ resp[w].kind = "result"
        /\ \E e \in wollets : e.name = req[w].params.name /\ e.entity.synced
        /\ signers # {}

\* ------------------------------------------------------------------ C22
\* The two states of the App.
Phase == IF app.rpc THEN "started" ELSE "not started"

\* Each call of the App's owner, as a move between the two states.
LifecycleMoves ==
    /\ Phase' # Phase
         => \/ Phase = "not started" /\ AppReturns("run") /\ app'.result = "Ok"
            \/ Phase = "started" /\ app'.call = "join_threads"
    /\ AppReturns("run") /\ app'.result = "Ok"
         => /\ Phase = "not started" /\ Phase' = "started"
            /\ wollets' = {} /\ signers' = {}
            /\ holders' = {} /\ ~poisoned'
            /\ running'
    /\ AppReturns("run") /\ Phase = "started"
         => app'.result = "AlreadyStarted" /\ Phase' = "started" /\ ServerUntouched
    /\ AppReturns("run") /\ app'.result \notin {"Ok", "AlreadyStarted"}
         => Phase = "not started" /\ Phase' = "not started" /\ ServerUntouched
    /\ AppReturns("stop")
         => /\ Phase' = Phase
            /\ Phase = "started" => app'.result = "Ok" /\ ~running'
    /\ app' # app /\ app'.call = "join_threads"
         => Phase' = "not started"
    /\ Phase = "not started" /\ app.at = "ready"
         => \A call \in {"stop", "is_running", "join_threads"} :
                AppReturns(call) => app'.result = "NotStarted" /\ ServerUntouched

\* An App that is not started, and whose owner is not inside join_threads,
\* accepts run.
RunAccepted ==
    Phase = "not started" /\ app.at = "ready" /\ app.runs < MaxRuns
      => ENABLED (AppRun /\ app'.rpc)

\* C22: the App is a machine of two states: a run that returns Ok moves it
\* from not started to started and installs an empty session state; stop
\* keeps it started, so that run after stop fails with AlreadyStarted;
\* join_threads moves it back to not started, where stop, is_running and
\* join_threads fail with NotStarted and run is accepted again; a run whose
\* bind fails leaves it not started.
C22_LifecycleMachine == []RunAccepted /\ [][LifecycleMoves]_vars

\* A second session runs with empty registries: run, stop, join_threads and
\* run again have all returned Ok.
C22_Witness ==
    /\ app.runs = 2
    /\ app.call = "run"
    /\ app.result = "Ok"
    /\ Phase = "started"
    /\ running
    /\ wollets = {}

\* ------------------------------------------------------------------ C23
\* Worker w handles a request in a state where the lock is poisoned.
HandlesPoisoned(w, at) == poisoned /\ pc[w] = at /\ pc'[w] # pc[w]

\* The lock is poisoned by a panic under the guard, of LoadSigner on the
\* serial device or of SinglesigDescriptor, and stays poisoned; from then on
\* nobody holds it and the registries stay as they are.
PoisonStays ==
    /\ ~poisoned /\ poisoned'
         => \E w \in Workers :
              /\ pc[w] = "unlocking" /\ pc'[w] = "done"
              /\ resp[w].kind = "panic"
              /\ \/ req[w].method = "load_signer" /\ req[w].params.kind = "serial"
                 \/ req[w].method = "singlesig_descriptor"
    /\ poisoned
         => poisoned' /\ holders' = {} /\ wollets' = wollets /\ signers' = signers

\* A request that calls state.lock() on the poisoned lock panics there; one
\* whose parameters are rejected ends before the call, with the error.
LockCallsPanic ==
    \A w \in Workers :
        /\ HandlesPoisoned(w, "wantlock")
             => pc'[w] = "done" /\ resp'[w].kind = "panic" /\ resp'[w].calls = <<>>
        /\ HandlesPoisoned(w, "called") /\ req[w].method \in LockMethods
             => LET d == DeserializeParams(req[w].method, req[w].params)
                IN  CASE d = "ok" -> pc'[w] = "wantlock"
                      [] d = "error" -> pc'[w] = "done" /\ resp'[w].kind = "error"
                      [] OTHER -> pc'[w] = "done" /\ resp'[w].kind = "panic"

\* The requests that never call state.lock() end as they do on a healthy lock.
OthersAnswered ==
    \A w \in Workers :
        HandlesPoisoned(w, "called") /\ req[w].method \notin LockMethods
          => /\ pc'[w] = "done"
             /\ resp'[w].kind \in {"result", "error", "stop", "unimplemented", "panic"}
             /\ resp'[w].kind = "panic"
                  => DeserializeParams(req[w].method, req[w].params) = "panic"
             /\ req[w].method = "version" => resp'[w] = VersionHandler(req[w])
             /\ req[w].method = "stop" => resp'[w] = StopHandler(req[w])
             /\ ~ParseMethod(req[w].method).ok => resp'[w] = UnimplementedResponse(req[w])

\* On a poisoned lock nobody is under the guard, and a worker with a request
\* that never calls state.lock() can go on.
PoisonedLockIsFree ==
    poisoned
      => /\ holders = {}
         /\ \A w \in Workers :
              /\ pc[w] \notin {"locked", "synced", "unlocking"}
              /\ pc[w] = "called" /\ req[w].method \notin LockMethods
                   => ENABLED (LockFreeStep(w) \/ Stop(w) \/ Unimplemented(w))

\* C23 as stated: once the lock is poisoned, every request of a method that
\* takes the lock ends in a panic.
C23_EveryLockRequestPanics ==
    [][\A w \in Workers :
         poisoned /\ req[w].method \in LockMethods
           /\ pc[w] \in {"called", "wantlock"} /\ pc'[w] = "done"
           => resp'[w].kind = "panic"]_vars

\* C23: a panic under the guard, of LoadSigner on the serial device or of
\* SinglesigDescriptor, poisons the lock for good: every later request that
\* reaches state.lock() panics there and the registries are never modified
\* again, a request of a lock-taking method whose parameters are rejected is
\* still answered with the error, and Version, GenerateSigner,
\* MultisigDescriptor, Contract, Schema, Stop and unknown method names are
\* handled as before.
C23_PoisoningIsPermanent ==
    []PoisonedLockIsFree /\ [][PoisonStays /\ LockCallsPanic /\ OthersAnswered]_vars

\* On the poisoned lock ListWallets has panicked and Version was answered,
\* with the signer registered before the poisoning still in the registry.
C23_Witness ==
    \E w, v \in Workers :
        /\ poisoned
        /\ pc[w] = "done" /\ req[w].method = "list_wallets" /\ resp[w].kind = "panic"
        /\ pc[v] = "done" /\ req[v].method = "version" /\ resp[v].kind = "result"
        /\ signers # {}

====
